---- MODULE Spec2Model ----
(***************************************************************************)
(* State-machine model of the SOP document loader (SOPDataLoader) and of   *)
(* the MCP tools in front of it.  Text is modelled as a sequence of        *)
(* one-character strings, a Python dict as the sequence of its values in   *)
(* insertion order, and datetime.now() as an integer number of seconds.    *)
(***************************************************************************)
EXTENDS Integers, Sequences, FiniteSets, TLC

VARIABLES
    use_s3,           \* self.use_s3
    s3_client,        \* self._s3_client is not None
    config,           \* base_path, s3_bucket, s3_prefix, _cache_ttl_seconds
    sop_cache,        \* self._sop_cache: the records in insertion order
    cache_timestamp,  \* self._cache_timestamp (None when unset)
    now,              \* datetime.now(), in seconds
    store,            \* the documents of the backend the instance reads
    location,         \* whether the directory or the bucket can be listed
    fault_injection,  \* whether the environment may raise inside a load pass
    cleared,          \* the last loader operation was clear_cache()
    ever_loaded,      \* some load pass has run to completion
    op,               \* the operation performed by the last step
    arg,              \* its arguments
    ret,              \* what it returned
    calls,            \* the backend calls it made, in order
    raised,           \* whether load_sops caught an exception during it
    pre,              \* cache mapping and timestamp when it was called
    manager,          \* the ServerManager of start_all_servers.py
    threads,          \* where each concurrent caller of load_sops stands
    passes,           \* the mappings the passes of these callers assigned
    agent,            \* the globals of anomaly_root_cause_agent.py and their use
    json_loader       \* the JSONDataLoader, its files and its last request

\* The programs of the repository beside the SOP loader and its server
others == <<manager, threads, passes, agent, json_loader>>

\* The programs beside the ServerManager
beside_manager == <<threads, passes, agent, json_loader>>

\* The programs beside the loader and its concurrent callers
beside_threads == <<manager, agent, json_loader>>

\* The programs beside the anomaly agent
beside_agent == <<manager, threads, passes, json_loader>>

\* The programs beside the JSONDataLoader
beside_json == <<manager, threads, passes, agent>>

\* The SOP loader, its backend and what is observed of its operations
loader == <<use_s3, s3_client, config, sop_cache, cache_timestamp, now, store,
            location, fault_injection, cleared, ever_loaded, op, arg, ret, calls,
            raised, pre>>

vars == <<loader, others>>

----------------------------------------------------------------------------
(* Bounds and program constants *)

MaxTime == 7200

cache_ttl_seconds == 3600

None == -1

\* The instants the clock is observed at: each TTL boundary and the second
\* before it, and the last instant.
Instants ==
    {t \in 0..MaxTime : t % cache_ttl_seconds \in {0, cache_ttl_seconds - 1}} \cup {MaxTime}

----------------------------------------------------------------------------
(* Text *)

Lowers == <<"a","b","c","d","e","f","g","h","i","j","k","l","m",
            "n","o","p","q","r","s","t","u","v","w","x","y","z">>

Uppers == <<"A","B","C","D","E","F","G","H","I","J","K","L","M",
            "N","O","P","Q","R","S","T","U","V","W","X","Y","Z">>

\* The other characters of the texts used, in code point order.
Others == <<"\n"," ","#","*","-",".","/","1","2","3",":","U+FFFD">>

OtherCode == <<10, 32, 35, 42, 45, 46, 47, 49, 50, 51, 58, 65533>>

Chars == {Lowers[i] : i \in 1..26} \cup {Uppers[i] : i \in 1..26}
            \cup {Others[i] : i \in 1..Len(Others)}

\* ord(c)
Ord ==
    [c \in Chars |->
        IF \E i \in 1..26 : Uppers[i] = c
        THEN 64 + (CHOOSE i \in 1..26 : Uppers[i] = c)
        ELSE IF \E i \in 1..26 : Lowers[i] = c
        THEN 96 + (CHOOSE i \in 1..26 : Lowers[i] = c)
        ELSE OtherCode[CHOOSE i \in 1..Len(Others) : Others[i] = c]]

\* str.upper() and str.lower(), one character at a time
UpperChar ==
    [c \in Chars |->
        IF \E i \in 1..26 : Lowers[i] = c
        THEN Uppers[CHOOSE i \in 1..26 : Lowers[i] = c]
        ELSE c]

LowerChar ==
    [c \in Chars |->
        IF \E i \in 1..26 : Uppers[i] = c
        THEN Lowers[CHOOSE i \in 1..26 : Uppers[i] = c]
        ELSE c]

upper(s) == [i \in 1..Len(s) |-> UpperChar[s[i]]]

lower(s) == [i \in 1..Len(s) |-> LowerChar[s[i]]]

\* \s of the re module and the characters str.strip() removes
IsSpace(c) == c \in {" ", "\n"}

\* s[i:] starts with p
StartsAt(s, i, p) ==
    /\ i >= 1
    /\ i + Len(p) - 1 <= Len(s)
    /\ \A k \in 1..Len(p) : s[i + k - 1] = p[k]

\* str.endswith
endswith(s, suffix) == StartsAt(s, Len(s) - Len(suffix) + 1, suffix)

\* The least and the greatest element of a non-empty set of integers
Least(S) == CHOOSE i \in S : \A k \in S : i <= k

Greatest(S) == CHOOSE i \in S : \A k \in S : k <= i

\* s without the characters before the first and after the last of `kept`
Kept(s, kept) == IF kept = {} THEN <<>> ELSE SubSeq(s, Least(kept), Greatest(kept))

\* str.strip()
strip(s) == Kept(s, {i \in 1..Len(s) : ~IsSpace(s[i])})

\* first index >= i of s whose character is not whitespace (Len(s)+1 if none)
RECURSIVE SkipSpaces(_, _)
SkipSpaces(s, i) ==
    IF i > Len(s) THEN Len(s) + 1
    ELSE IF IsSpace(s[i]) THEN SkipSpaces(s, i + 1) ELSE i

\* index of the first newline at or after i (Len(s)+1 if none)
RECURSIVE LineEnd(_, _)
LineEnd(s, i) ==
    IF i > Len(s) THEN Len(s) + 1
    ELSE IF s[i] = "\n" THEN i ELSE LineEnd(s, i + 1)

\* str < str: code point order, a proper prefix first
StrLess(a, b) ==
    \E i \in 1..(Len(b)) :
        /\ \A k \in 1..(i - 1) : k <= Len(a) /\ a[k] = b[k]
        /\ \/ i = Len(a) + 1
           \/ i <= Len(a) /\ Ord[a[i]] < Ord[b[i]]

\* sorted() of a set of distinct strings
sorted(S) ==
    IF S = {} THEN <<>>
    ELSE CHOOSE q \in [1..Cardinality(S) -> S] :
            \A i, j \in 1..Cardinality(S) : i < j => StrLess(q[i], q[j])

\* U+FFFD, the character a decoder puts in place of a malformed sequence
Replacement == "U+FFFD"

\* chr(b) of a code of the alphabet
Chr(b) == CHOOSE c \in Chars : Ord[c] = b

\* The bytes held here are ASCII, 0x80 and 0xFF: a byte from 0x80 on stands
\* in no well-formed sequence of them.
Malformed(b) == b >= 128

\* UnicodeDecodeError
DecodeError == [ok |-> FALSE, text |-> <<>>]

\* The decoder with errors='replace': one U+FFFD for each malformed byte
decode_replace(bytes) ==
    [ok |-> TRUE,
     text |-> [i \in 1..Len(bytes) |->
                  IF Malformed(bytes[i]) THEN Replacement ELSE Chr(bytes[i])]]

\* bytes.decode('utf-8'), whose errors default to 'strict': the first
\* malformed byte raises
decode_strict(bytes) ==
    IF \E i \in 1..Len(bytes) : Malformed(bytes[i])
    THEN DecodeError
    ELSE decode_replace(bytes)

----------------------------------------------------------------------------
(* Metadata extraction: _parse_sop_metadata *)

DocumentControl == <<"d","o","c","u","m","e","n","t"," ","c","o","n","t","r","o","l">>

DocumentIdLabel == <<"*","*","D","o","c","u","m","e","n","t"," ","I","D",":","*","*">>

VersionLabel == <<"*","*","V","e","r","s","i","o","n",":","*","*">>

EffectiveDateLabel == <<"*","*","E","f","f","e","c","t","i","v","e"," ","D","a","t","e",":","*","*">>

ReviewDateLabel == <<"*","*","R","e","v","i","e","w"," ","D","a","t","e",":","*","*">>

OwnerLabel == <<"*","*","O","w","n","e","r",":","*","*">>

ApprovedByLabel == <<"*","*","A","p","p","r","o","v","e","d"," ","B","y",":","*","*">>

\* Whether ^#\s+(.+)$ (MULTILINE) matches with the '#' at index i, and where
\* group 1 then starts: \s+ is greedy and gives characters back until the
\* next one is not a newline.
TitleStarts(s, i) ==
    {c \in (i + 2)..SkipSpaces(s, i + 1) : c <= Len(s) /\ s[c] # "\n"}

TitleMatchesAt(s, i) ==
    /\ s[i] = "#"
    /\ (i = 1 \/ s[i - 1] = "\n")
    /\ TitleStarts(s, i) # {}

\* s from index c to the end of its line, stripped
RestOfLine(s, c) == strip(SubSeq(s, c, LineEnd(s, c) - 1))

\* group 1 of the first of the matches, stripped; '' without a match
TitleOf(s, matches) ==
    IF matches = {} THEN <<>>
    ELSE RestOfLine(s, Greatest(TitleStarts(s, Least(matches))))

\* metadata['title']
parse_title(s) == TitleOf(s, {i \in 1..Len(s) : TitleMatchesAt(s, i)})

\* Document Control\s*\n at index e of s (IGNORECASE; ls is s in lower case):
\* the index of the newline that ends the heading, 0 without a match.  \s* is
\* greedy, so it is the last newline of the whitespace after the heading.
ControlHeadFrom(s, ls, e) ==
    IF StartsAt(ls, e, DocumentControl)
    THEN Greatest({0} \cup {n \in (e + Len(DocumentControl))..
                                  (SkipSpaces(s, e + Len(DocumentControl)) - 1) :
                                s[n] = "\n"})
    ELSE 0

\* ##\s+Document Control\s*\n with the '##' at index i
ControlHeadEnd(s, ls, i) ==
    IF StartsAt(s, i, <<"#","#">>) /\ SkipSpaces(s, i + 2) > i + 2
    THEN ControlHeadFrom(s, ls, SkipSpaces(s, i + 2))
    ELSE 0

\* (?=\n##|\n---|\Z) at index p
ControlStopsAt(s, p) ==
    \/ p = Len(s) + 1
    \/ StartsAt(s, p, <<"\n","#","#">>)
    \/ StartsAt(s, p, <<"\n","-","-","-">>)

\* (.*?) after the newline at index n: up to the first stop
ControlBody(s, n) ==
    SubSeq(s, n + 1, Least({p \in (n + 1)..(Len(s) + 1) : ControlStopsAt(s, p)}) - 1)

\* group 1 of the match at the first of the heads; the flag tells whether
\* there is a match at all
ControlOf(s, ls, heads) ==
    IF heads = {} THEN [found |-> FALSE, text |-> <<>>]
    ELSE [found |-> TRUE, text |-> ControlBody(s, ControlHeadEnd(s, ls, Least(heads)))]

ControlIn(s, ls) == ControlOf(s, ls, {i \in 1..Len(s) : ControlHeadEnd(s, ls, i) > 0})

\* doc_control_section.group(1) of the first match
control_content(s) == ControlIn(s, lower(s))

\* \s*(.+?)(?:\n|$) at index q of t, group 1 stripped: \s* runs over newlines
\* too, so the value is the rest of the first line from q on that is not blank
FieldFrom(t, q) == IF q > Len(t) THEN <<>> ELSE RestOfLine(t, q)

FieldOf(t, label, at) ==
    IF at = {} THEN <<>> ELSE FieldFrom(t, SkipSpaces(t, Least(at) + Len(label)))

FieldIn(t, lt, label, ll) == FieldOf(t, label, {j \in 1..Len(t) : StartsAt(lt, j, ll)})

\* re.search(label\s*(.+?)(?:\n|$), t, IGNORECASE): group 1 stripped, '' when
\* the label is absent
field_value(t, label) == FieldIn(t, lower(t), label, lower(label))

\* \d, for the digits of the alphabet
IsDigit(c) == c \in {"1", "2", "3"}

\* The index after the digits that start at index c
DigitsEnd(s, c) == Least({p \in c..(Len(s) + 1) : p = Len(s) + 1 \/ ~IsDigit(s[p])})

\* Where (.+) can start after whitespace matched greedily from index `from`
\* on: whitespace is given back until the next character is not a newline.
BodyStarts(s, from) == {e \in from..SkipSpaces(s, from) : e <= Len(s) /\ s[e] # "\n"}

\* Whether ^##\s+(\d+\.?\s*)?(.+)$ (MULTILINE) matches with the '##' at index i
SectionHeadAt(s, i) ==
    /\ i = 1 \/ s[i - 1] = "\n"
    /\ StartsAt(s, i, <<"#","#">>)
    /\ i + 2 <= Len(s)
    /\ IsSpace(s[i + 2])
    /\ BodyStarts(s, i + 3) # {}

\* The match whose group 1 did not take part and whose group 2 starts at c
NoNumber(s, c) ==
    [number |-> <<>>, title |-> RestOfLine(s, c), stop |-> LineEnd(s, c)]

\* The match whose group 1 starts at c and whose group 2 starts at e
WithNumber(s, c, e) ==
    [number |-> strip(SubSeq(s, c, e - 1)), title |-> RestOfLine(s, e),
     stop |-> LineEnd(s, e)]

\* The match with digits from c to p - 1 and group 1 up to q (after the dot
\* when there is one): the whitespace, then the dot, then the digits but
\* one are given back until a character is left for group 2.
Numbered(s, c, p, q) ==
    IF BodyStarts(s, q) # {} THEN WithNumber(s, c, Greatest(BodyStarts(s, q)))
    ELSE IF q > p THEN WithNumber(s, c, p)
    ELSE IF p - c >= 2 THEN WithNumber(s, c, p - 1)
    ELSE NoNumber(s, c)

\* The dot of \.? after the digits that end before p
AfterDot(s, p) == IF p <= Len(s) /\ s[p] = "." THEN p + 1 ELSE p

\* The match after the whitespace of the heading, at index c
SectionFrom(s, c) ==
    IF DigitsEnd(s, c) = c THEN NoNumber(s, c)
    ELSE Numbered(s, c, DigitsEnd(s, c), AfterDot(s, DigitsEnd(s, c)))

\* The match with the '##' at index i
SectionMatch(s, i) == SectionFrom(s, Greatest(BodyStarts(s, i + 3)))

\* Whether ###\s+<number>\.(\d+)\s+(.+)$ matches with the '###' at index j,
\* the whitespace ending before c and the digits of group 1 before p
SubHeadFrom(s, prefix, c, p) ==
    /\ StartsAt(s, c, prefix)
    /\ p > c + Len(prefix)
    /\ p <= Len(s)
    /\ IsSpace(s[p])
    /\ BodyStarts(s, p + 1) # {}

SubHeadAt(s, prefix, j) ==
    /\ StartsAt(s, j, <<"#","#","#">>)
    /\ SkipSpaces(s, j + 3) > j + 3
    /\ SubHeadFrom(s, prefix, SkipSpaces(s, j + 3),
                   DigitsEnd(s, SkipSpaces(s, j + 3) + Len(prefix)))

\* f"{subsection_num} {subsection_title}" of the match, and where it ends
SubMatchFrom(s, c, p, e) ==
    [text |-> SubSeq(s, c, p - 1) \o <<" ">> \o RestOfLine(s, e), stop |-> LineEnd(s, e)]

SubMatchTo(s, c, p) == SubMatchFrom(s, c, p, Greatest(BodyStarts(s, p + 1)))

SubMatch(s, prefix, j) ==
    SubMatchTo(s, SkipSpaces(s, j + 3), DigitsEnd(s, SkipSpaces(s, j + 3) + Len(prefix)))

RECURSIVE SubsFrom(_, _, _), SubsAfter(_, _, _)
\* re.finditer of the subsection pattern: the matches from index i on, each
\* search starting where the match before ended
SubsFrom(s, prefix, i) ==
    IF \E j \in i..Len(s) : SubHeadAt(s, prefix, j)
    THEN SubsAfter(s, prefix, SubMatch(s, prefix, Least({j \in i..Len(s) : SubHeadAt(s, prefix, j)})))
    ELSE <<>>

SubsAfter(s, prefix, m) == <<m.text>> \o SubsFrom(s, prefix, m.stop)

\* The entry appended to `sections` for the match m
Section(s, m) ==
    [number |-> m.number, title |-> m.title,
     subsections |-> SubsFrom(s, m.number \o <<".">>, 1)]

RECURSIVE SectionsFrom(_, _), SectionsAfter(_, _)
\* re.finditer of the section pattern, and the entry of each match
SectionsFrom(s, i) ==
    IF \E j \in i..Len(s) : SectionHeadAt(s, j)
    THEN SectionsAfter(s, SectionMatch(s, Least({j \in i..Len(s) : SectionHeadAt(s, j)})))
    ELSE <<>>

SectionsAfter(s, m) == <<Section(s, m)>> \o SectionsFrom(s, m.stop)

\* metadata['sections']
parse_sections(s) == SectionsFrom(s, 1)

\* len(content.split())
word_count(s) ==
    Cardinality({i \in 1..Len(s) : ~IsSpace(s[i]) /\ (i = 1 \/ IsSpace(s[i - 1]))})

\* len(c.encode('utf-8')) of one character
Utf8Width(c) == IF Ord[c] < 128 THEN 1 ELSE IF Ord[c] < 2048 THEN 2 ELSE 3

\* len(content.encode('utf-8')): the widths of the characters added up
Utf8Len(s) ==
    Cardinality({i \in 1..Len(s) : Utf8Width(s[i]) = 1})
        + 2 * Cardinality({i \in 1..Len(s) : Utf8Width(s[i]) = 2})
        + 3 * Cardinality({i \in 1..Len(s) : Utf8Width(s[i]) = 3})

\* The fields read from the control section `control` of the content
Fields(content, control) ==
    [title          |-> parse_title(content),
     document_id    |-> field_value(control, DocumentIdLabel),
     version        |-> field_value(control, VersionLabel),
     effective_date |-> field_value(control, EffectiveDateLabel),
     review_date    |-> field_value(control, ReviewDateLabel),
     owner          |-> field_value(control, OwnerLabel),
     approved_by    |-> field_value(control, ApprovedByLabel),
     sections       |-> parse_sections(content),
     word_count     |-> word_count(content),
     file_size      |-> Utf8Len(content)]

\* What _parse_sop_metadata and load_sops derive from the content alone.  A
\* field keeps its initial '' when the control section or its label is not
\* found.
extract_metadata(content) == Fields(content, control_content(content).text)

----------------------------------------------------------------------------
(* The backend: a directory (local mode) or a bucket prefix (S3 mode) *)

DotMd == <<".","m","d">>

AMd == <<"a",".","m","d">>

BMd == <<"b",".","m","d">>

NTxt == <<"n",".","t","x","t">>

\* The names an entry of the backend can have.
FileNames == {AMd, BMd, NTxt}

\* self.s3_prefix, as text
SopPrefix == <<"s","o","p","/">>

\* Paths below the directory or the prefix: a file in a subdirectory named as
\* the prefix is, and a file in a subdirectory whose name ends in .md
SopAMd == <<"s","o","p","/","a",".","m","d">>

DMdAMd == <<"d",".","m","d","/","a",".","m","d">>

\* The paths a file of the backend can have, relative to the directory or to
\* the prefix.
Paths == FileNames \cup {SopAMd, DMdAMd}

TextA == <<"#"," ","A","b","\n","#","#"," ","D","o","c","u","m","e","n","t"," ","C","o","n","t","r","o","l","\n","*","*","D","o","c","u","m","e","n","t"," ","I","D",":","*","*"," ","A","b","\n","#","#"," ","1"," ","a","b","\n","a","b"," ","a","b","\n">>

TextB == <<"#"," ","Q","\n","#","#"," "," ","d","o","c","u","m","e","n","t"," ","c","o","n","t","r","o","l"," ","\n","\n","*","*","d","o","c","u","m","e","n","t"," ","i","d",":","*","*","a","B"," ","\n","-","-","-","\n","a","b","\n">>

TextC == <<"#"," "," ","\n","Q"," ","a","b","\n">>

TextD == <<"#","#"," ","T","i","t","l","e","\n","a","a","a","\n">>

\* The length of the long documents
LongLen == 1400

\* The long documents, and the indices (from 0) at which each holds "ab":
\* far apart, close together, a window's width apart and one less, and more
\* often than the excerpts look at.
LongDocs == {"Long1", "Long2", "Long3", "Long4"}

MatchesOf ==
    [d \in LongDocs |->
        IF d = "Long1" THEN {2, 400, 800, 1200}
        ELSE IF d = "Long2" THEN {2, 100, 304, 605, 906}
        ELSE IF d = "Long3" THEN {2, 10, 20, 30, 40, 50, 60, 700}
        ELSE {500, 1000}]

\* The character at index p (from 0) of the long document with matches P: a
\* title line that holds the keyword when 2 is in P, lines of 100 characters
\* of words, and a heading at 600.
LongChar(P, p) ==
    IF p = 0 THEN "#"
    ELSE IF p = 1 THEN " "
    ELSE IF p = 2 THEN (IF 2 \in P THEN "A" ELSE "Q")
    ELSE IF p = 3 THEN (IF 2 \in P THEN "b" ELSE "-")
    ELSE IF p = 4 THEN "\n"
    ELSE IF p \in P THEN "a"
    ELSE IF (p - 1) \in P THEN "b"
    ELSE IF p % 100 = 99 THEN "\n"
    ELSE IF p \in {600, 601} THEN "#"
    ELSE IF p = 602 THEN " "
    ELSE IF p = 603 THEN "S"
    ELSE IF p % 7 = 3 THEN " "
    ELSE "-"

LongText(P) == [i \in 1..LongLen |-> LongChar(P, i - 1)]

\* Documents given by their bytes: "# Ab", a line break, the byte 0xFF and
\* "ab"; and "# Q", "ab" in well-formed bytes.
RawDocs == {"RawBad", "RawOk"}

BytesOf ==
    [d \in RawDocs |->
        IF d = "RawBad" THEN <<35, 32, 65, 98, 10, 255, 97, 98, 10>>
        ELSE <<35, 32, 81, 10, 97, 98, 10>>]

\* Documents with a header block, one for each choice of its parts.
MetaIds ==
        <<"M1", "M2", "M3", "M4", "M5", "M6", "M7", "M8", "M9", "M10",
          "M11", "M12", "M13", "M14", "M15", "M16", "M17", "M18", "M19",
          "M20", "M21", "M22", "M23", "M24", "M25", "M26", "M27", "M28",
          "M29", "M30", "M31", "M32", "M33", "M34", "M35", "M36", "M37",
          "M38", "M39", "M40", "M41", "M42", "M43", "M44", "M45", "M46",
          "M47", "M48">>

MetaDocs == {MetaIds[k] : k \in 1..Len(MetaIds)}

\* The parts of each: whether the heading of the control section is there (0:
\* no, 1: yes), the line of the version (0: none, 1: a value, 2: no value, 3:
\* the label in lower case and a value with spaces around it), the line of
\* the owner (0: none, 1: a value, 2: no value), and what follows (0:
\* nothing, 1: a rule and then the label of the approver).
MetaParts ==
    [d \in MetaDocs |->
        [head    |-> ((CHOOSE k \in 1..Len(MetaIds) : MetaIds[k] = d) - 1) % 2,
         version |-> (((CHOOSE k \in 1..Len(MetaIds) : MetaIds[k] = d) - 1) \div 2) % 4,
         owner   |-> (((CHOOSE k \in 1..Len(MetaIds) : MetaIds[k] = d) - 1) \div 8) % 3,
         tail    |-> (((CHOOSE k \in 1..Len(MetaIds) : MetaIds[k] = d) - 1) \div 24) % 2]]

MetaHead(h) ==
    IF h = 1
    THEN <<"#","#"," ","D","o","c","u","m","e","n","t"," ","C","o","n","t","r","o","l","\n">>
    ELSE <<>>

MetaVersion(v) ==
    IF v = 1 THEN VersionLabel \o <<" ","1","\n">>
    ELSE IF v = 2 THEN VersionLabel \o <<"\n">>
    ELSE IF v = 3 THEN lower(VersionLabel) \o <<" "," ","a"," ","b"," ","\n">>
    ELSE <<>>

MetaOwner(o) ==
    IF o = 1 THEN OwnerLabel \o <<" ","Q","\n">>
    ELSE IF o = 2 THEN OwnerLabel \o <<"\n">>
    ELSE <<>>

MetaTail(t) ==
    IF t = 1 THEN <<"-","-","-","\n">> \o ApprovedByLabel \o <<" ","Z","\n">>
    ELSE <<>>

MetaText(parts) ==
    <<"#"," ","T","\n">> \o MetaHead(parts.head) \o MetaVersion(parts.version)
        \o MetaOwner(parts.owner) \o MetaTail(parts.tail)

\* Documents with an outline, one for each choice of its parts.
OutlineIds ==
        <<"O1", "O2", "O3", "O4", "O5", "O6", "O7", "O8", "O9", "O10",
          "O11", "O12", "O13", "O14", "O15", "O16", "O17", "O18", "O19",
          "O20", "O21", "O22", "O23", "O24", "O25", "O26", "O27", "O28",
          "O29", "O30", "O31", "O32", "O33", "O34", "O35", "O36", "O37",
          "O38", "O39", "O40", "O41", "O42", "O43", "O44", "O45", "O46",
          "O47", "O48", "O49", "O50", "O51", "O52", "O53", "O54", "O55",
          "O56", "O57", "O58", "O59", "O60", "O61", "O62", "O63", "O64",
          "O65", "O66", "O67", "O68", "O69", "O70", "O71", "O72", "O73",
          "O74", "O75", "O76", "O77", "O78", "O79", "O80", "O81", "O82",
          "O83", "O84", "O85", "O86", "O87", "O88", "O89", "O90", "O91",
          "O92", "O93", "O94", "O95", "O96", "O97", "O98", "O99", "O100",
          "O101", "O102", "O103", "O104", "O105", "O106", "O107", "O108">>

OutlineDocs == {OutlineIds[k] : k \in 1..Len(OutlineIds)}

\* The parts of each: the first second-level heading (0: "## 1 Setup", 1:
\* "## 1. Setup", 2: "## Setup"), the third-level headings below it (0: none,
\* 1: "### 1.1 Prerequisites", 2: that and "### 1.2 Q"), the next second-level heading
\* (0: none, 1: "## 2 Run", 2: "## 11 X") and the third-level heading at the
\* end (0: none, 1: "### 2.1 A", 2: "### 1.3 L", 3: "### 11.1 B").
OutlineParts ==
    [d \in OutlineDocs |->
        [first |-> ((CHOOSE k \in 1..Len(OutlineIds) : OutlineIds[k] = d) - 1) % 3,
         below |-> (((CHOOSE k \in 1..Len(OutlineIds) : OutlineIds[k] = d) - 1) \div 3) % 3,
         next  |-> (((CHOOSE k \in 1..Len(OutlineIds) : OutlineIds[k] = d) - 1) \div 9) % 3,
         last  |-> (((CHOOSE k \in 1..Len(OutlineIds) : OutlineIds[k] = d) - 1) \div 27) % 4]]

Prerequisites == <<"P","r","e","r","e","q","u","i","s","i","t","e","s">>

OutlineFirst(x) ==
    IF x = 0 THEN <<"#","#"," ","1"," ","S","e","t","u","p","\n">>
    ELSE IF x = 1 THEN <<"#","#"," ","1","."," ","S","e","t","u","p","\n">>
    ELSE <<"#","#"," ","S","e","t","u","p","\n">>

OutlineBelow(x) ==
    IF x = 0 THEN <<>>
    ELSE IF x = 1 THEN <<"#","#","#"," ","1",".","1"," ">> \o Prerequisites \o <<"\n">>
    ELSE <<"#","#","#"," ","1",".","1"," ">> \o Prerequisites
            \o <<"\n","#","#","#"," ","1",".","2"," ","Q","\n">>

OutlineNext(x) ==
    IF x = 0 THEN <<>>
    ELSE IF x = 1 THEN <<"#","#"," ","2"," ","R","u","n","\n">>
    ELSE <<"#","#"," ","1","1"," ","X","\n">>

OutlineLast(x) ==
    IF x = 0 THEN <<>>
    ELSE IF x = 1 THEN <<"#","#","#"," ","2",".","1"," ","A","\n">>
    ELSE IF x = 2 THEN <<"#","#","#"," ","1",".","3"," ","L","\n">>
    ELSE <<"#","#","#"," ","1","1",".","1"," ","B","\n">>

OutlineText(parts) ==
    <<"#"," ","T","\n">> \o OutlineFirst(parts.first) \o OutlineBelow(parts.below)
        \o OutlineNext(parts.next) \o OutlineLast(parts.last)

\* The texts a document can hold.  A content is held by reference, as a
\* Python str is: the state names the text, TextOf gives its characters (for
\* a document given by its bytes, the characters a lenient decoder yields).
Docs == {"Empty", "DocA", "DocB", "DocC", "DocD"} \cup LongDocs \cup RawDocs \cup MetaDocs
            \cup OutlineDocs

TextOf ==
    [d \in Docs |->
        IF d = "DocA" THEN TextA
        ELSE IF d = "DocB" THEN TextB
        ELSE IF d = "DocC" THEN TextC
        ELSE IF d = "DocD" THEN TextD
        ELSE IF d \in LongDocs THEN LongText(MatchesOf[d])
        ELSE IF d \in RawDocs THEN decode_replace(BytesOf[d]).text
        ELSE IF d \in MetaDocs THEN MetaText(MetaParts[d])
        ELSE IF d \in OutlineDocs THEN OutlineText(OutlineParts[d])
        ELSE <<>>]

\* What an entry can be: no such entry, an entry that cannot be read, a
\* file whose bytes are the well-formed encoding of one of the texts (the
\* empty text among them), or a file given by its bytes.
Absent == [state |-> "absent", text |-> "Empty"]

Unreadable == [state |-> "unreadable", text |-> "Empty"]

File(d) == [state |-> "file", text |-> d]

Bytes(d) == [state |-> "bytes", text |-> d]

\* extract_metadata of each of the texts
Extracted == [d \in Docs |-> extract_metadata(TextOf[d])]

\* content.lower() of each of the texts
LowerText == [d \in Docs |-> lower(TextOf[d])]

\* The record stored under filename for the content whose derived fields are m
Record(m, content, filename) ==
    [name             |-> filename,
     title            |-> m.title,
     document_id      |-> m.document_id,
     version          |-> m.version,
     effective_date   |-> m.effective_date,
     review_date      |-> m.review_date,
     owner            |-> m.owner,
     approved_by      |-> m.approved_by,
     sections         |-> m.sections,
     word_count       |-> m.word_count,
     storage_location |-> IF use_s3 THEN "s3" ELSE "local",
     content          |-> content,
     file_size        |-> m.file_size,
     last_modified    |-> now]

\* _parse_sop_metadata, with the fields load_sops adds to it
parse_sop_metadata(content, filename) == Record(Extracted[content], content, filename)

\* What each entry of the backend can become.
Entries ==
    [f \in FileNames |->
        IF f = AMd THEN {File("DocA"), File("DocC"), Unreadable}
        ELSE IF f = BMd THEN {File("DocB"), File("DocD"), File("Empty"), Absent}
        ELSE {File("DocC")}]

\* Optional[str]: None, or a text
NoContent == [ok |-> FALSE, text |-> "Empty"]

Content(d) == [ok |-> TRUE, text |-> d]

\* bool(content) of a content that is not None
Truthy(d) == TextOf[d] # <<>>

Backend == IF use_s3 /\ s3_client THEN "s3" ELSE "local"

ListCall == [call |-> "list", backend |-> Backend, key |-> <<>>]

ReadCall(filename) == [call |-> "read", backend |-> Backend, key |-> filename]

\* The paths of the files the backend holds
Held == {f \in DOMAIN store : store[f].state # "absent"}

\* The part of a path before its first '/'
FirstComponent(f) ==
    SubSeq(f, 1, Least({i \in 1..(Len(f) + 1) : i = Len(f) + 1 \/ f[i] = "/"}) - 1)

\* os.listdir(self.base_path): the files and the subdirectories of the directory
listdir == {FirstComponent(f) : f \in Held}

\* os.path.isfile(os.path.join(self.base_path, filename))
isfile(filename) == filename \in Held

\* _list_local_files: the entries of the directory that end in .md and are
\* files, sorted; [] when the directory does not exist or listing it raises
list_local_files ==
    IF location # "ok" THEN <<>>
    ELSE sorted({filename \in listdir : endswith(filename, DotMd) /\ isfile(filename)})

RECURSIVE ReplaceFrom(_, _, _)
\* s[i:].replace(old, ''): every occurrence of old is removed, from the left
ReplaceFrom(s, old, i) ==
    IF i > Len(s) THEN <<>>
    ELSE IF StartsAt(s, i, old) THEN ReplaceFrom(s, old, i + Len(old))
    ELSE <<s[i]>> \o ReplaceFrom(s, old, i + 1)

\* key.replace(self.s3_prefix, '') of the key of the object at each path
KeyName == [f \in Paths |-> ReplaceFrom(SopPrefix \o f, SopPrefix, 1)]

\* The test of line 143 on a filename
DirectMd(filename) ==
    endswith(filename, DotMd) /\ \A i \in 1..Len(filename) : filename[i] # "/"

\* How many times the loop of _list_s3_files appends filename
Appended(filename) == Cardinality({f \in Held : KeyName[f] = filename})

RECURSIVE Spread(_)
\* sorted(files) from the sorted distinct names: each as often as appended
Spread(q) ==
    IF q = <<>> THEN <<>>
    ELSE [k \in 1..Appended(Head(q)) |-> Head(q)] \o Spread(Tail(q))

\* _list_s3_files: the keys under the prefix, the prefix removed, that end in
\* .md and hold no '/', sorted; [] when list_objects_v2 raises
list_s3_files ==
    IF location # "ok" THEN <<>>
    ELSE Spread(sorted({KeyName[f] : f \in {g \in Held : DirectMd(KeyName[g])}}))

\* _list_sop_files
list_sop_files == IF use_s3 /\ s3_client THEN list_s3_files ELSE list_local_files

\* The content read from bytes whose decoding ended as `decoded`: the except
\* clauses of both readers turn an exception into None
Decoded(d, decoded) == IF decoded.ok THEN Content(d) ELSE NoContent

\* Mutation of _read_local_file: the file is opened without errors='replace'
read_local_file_strict(filename) ==
    IF store[filename].state = "file" THEN Content(store[filename].text)
    ELSE IF store[filename].state = "bytes"
    THEN Decoded(store[filename].text, decode_strict(BytesOf[store[filename].text]))
    ELSE NoContent

\* _read_local_file: the text, decoded with errors='replace', or None when
\* open() or read() fails
read_local_file(filename) ==
    IF store[filename].state = "file" THEN Content(store[filename].text)
    ELSE IF store[filename].state = "bytes"
    THEN Decoded(store[filename].text, decode_replace(BytesOf[store[filename].text]))
    ELSE NoContent

\* _read_s3_file: the text, decoded by bytes.decode('utf-8'), or None when
\* get_object, read or decode fails
read_s3_file(filename) ==
    IF store[filename].state = "file" THEN Content(store[filename].text)
    ELSE IF store[filename].state = "bytes"
    THEN Decoded(store[filename].text, decode_strict(BytesOf[store[filename].text]))
    ELSE NoContent

\* _read_sop_file
read_sop_file(filename) ==
    IF use_s3 /\ s3_client THEN read_s3_file(filename) ELSE read_local_file(filename)

----------------------------------------------------------------------------
(* The cache: load_sops *)

\* Mutation of _is_cache_valid: the comparison reversed
is_cache_valid_reversed(ts) ==
    IF ts = None THEN FALSE ELSE (now - ts) > config.cache_ttl_seconds

\* Mutation of _is_cache_valid: the cache still valid at exactly the TTL
is_cache_valid_inclusive(ts) ==
    IF ts = None THEN FALSE ELSE (now - ts) <= config.cache_ttl_seconds

\* _is_cache_valid, for the timestamp ts
is_cache_valid(ts) ==
    IF ts = None THEN FALSE ELSE (now - ts) < config.cache_ttl_seconds

\* The body of the loop of load_sops: sops[filename] = {...} when the content
\* read is truthy
Entry(content, filename) ==
    IF content.ok /\ Truthy(content.text)
    THEN <<parse_sop_metadata(content.text, filename)>>
    ELSE <<>>

RECURSIVE build_sops(_)
\* The loop of load_sops over filenames, in the order of the listing.  A
\* filename listed twice is read twice and stored under one key of the dict.
build_sops(filenames) ==
    IF filenames = <<>> THEN <<>>
    ELSE IF Len(filenames) > 1 /\ filenames[1] = filenames[2]
    THEN build_sops(Tail(filenames))
    ELSE Entry(read_sop_file(Head(filenames)), Head(filenames))
            \o build_sops(Tail(filenames))

\* The backend calls of a pass that processes the first n listed files.
PassCalls(filenames, n) ==
    <<ListCall>> \o [i \in 1..n |-> ReadCall(filenames[i])]

\* Whether a pass started with this cache can raise while it processes its
\* exc-th file (exc = 0: nothing is raised).
CanRaise(cache, ts, force_refresh, exc) ==
    /\ force_refresh \/ ~is_cache_valid(ts) \/ cache = <<>>
    /\ exc \in 1..Len(list_sop_files)

\* The early return of load_sops: the cached mapping, untouched
load_cached(cache, ts) ==
    [sop_cache |-> cache, cache_timestamp |-> ts, ret |-> cache,
     calls |-> <<>>, raised |-> FALSE, completed |-> FALSE,
     escaped |-> FALSE]

\* Mutation of the except branch: the loop stored each document into the
\* cache as it went, so the documents read before the exception stay in it
load_failed_partial(cache, ts, filenames, exc) ==
    [sop_cache |-> build_sops(SubSeq(filenames, 1, exc - 1)), cache_timestamp |-> ts,
     ret |-> build_sops(SubSeq(filenames, 1, exc - 1)),
     calls |-> PassCalls(filenames, exc), raised |-> TRUE, completed |-> FALSE,
     escaped |-> FALSE]

\* Mutation of the except branch: the exception is logged and raised again
load_failed_reraised(cache, ts, filenames, exc) ==
    [sop_cache |-> cache, cache_timestamp |-> ts, ret |-> <<>>,
     calls |-> PassCalls(filenames, exc), raised |-> TRUE, completed |-> FALSE,
     escaped |-> TRUE]

\* Mutation of the except branch: an empty dict is returned whatever is cached
load_failed_empty(cache, ts, filenames, exc) ==
    [sop_cache |-> cache, cache_timestamp |-> ts, ret |-> <<>>,
     calls |-> PassCalls(filenames, exc), raised |-> TRUE, completed |-> FALSE,
     escaped |-> FALSE]

\* The except branch of load_sops, entered while the exc-th listed file is
\* processed: the cached data if available, otherwise an empty dict
load_failed(cache, ts, filenames, exc) ==
    [sop_cache |-> cache, cache_timestamp |-> ts,
     ret |-> IF cache # <<>> THEN cache ELSE <<>>,
     calls |-> PassCalls(filenames, exc), raised |-> TRUE, completed |-> FALSE,
     escaped |-> FALSE]

\* The cache and its timestamp replaced by the mapping `sops` built
Replaced(sops, filenames) ==
    [sop_cache |-> sops, cache_timestamp |-> now, ret |-> sops,
     calls |-> PassCalls(filenames, Len(filenames)),
     raised |-> FALSE, completed |-> TRUE,
     escaped |-> FALSE]

\* Mutation of load_sops: a pass whose listing is empty leaves the cache as
\* it is and returns it
load_completed_keeping(filenames) ==
    IF filenames = <<>>
    THEN [load_cached(sop_cache, cache_timestamp) EXCEPT !.calls = <<ListCall>>]
    ELSE Replaced(build_sops(filenames), filenames)

\* The try block of load_sops run to its end: the cache and its timestamp
\* are replaced after the loop
load_completed(filenames) == Replaced(build_sops(filenames), filenames)

\* The try block of load_sops over the listing `filenames`.  With exc > 0 an
\* exception is raised while the exc-th listed file is processed.
load_pass(cache, ts, filenames, exc) ==
    IF exc \in 1..Len(filenames)
    THEN load_failed(cache, ts, filenames, exc)
    ELSE load_completed(filenames)

\* Mutation of line 303: the truthiness of the cache is not tested, a
\* timestamp within the TTL is enough
load_sops_by_timestamp(cache, ts, force_refresh, exc) ==
    IF ~force_refresh /\ is_cache_valid(ts)
    THEN load_cached(cache, ts)
    ELSE load_pass(cache, ts, list_sop_files, exc)

\* load_sops(force_refresh) called with cache mapping `cache` and timestamp
\* `ts`: the mapping and timestamp it leaves, what it returns, the backend
\* calls it makes.
load_sops(cache, ts, force_refresh, exc) ==
    IF ~force_refresh /\ is_cache_valid(ts) /\ cache # <<>>
    THEN load_cached(cache, ts)
    ELSE load_pass(cache, ts, list_sop_files, exc)

----------------------------------------------------------------------------
(* Queries over the mapping load_sops returns *)

NoResult == [kind |-> "none", value |-> <<>>]

\* An exception that leaves the operation instead of a result
Propagated == [kind |-> "exception", value |-> <<>>]

\* What an operation without a handler of its own hands its caller after the
\* call of load_sops with outcome r: the exception that left load_sops, if
\* one did, and its result otherwise
Returned(r, result) == IF r.escaped THEN Propagated ELSE result

\* {"success": False, "error": str(e)} of the handler of a tool
ToolError == [kind |-> "error", value |-> <<>>]

\* What a tool answers: what its handler returns when an exception left the
\* loader, and its result otherwise
Caught(r, result, fallback) == IF r.escaped THEN fallback ELSE result

\* sops.get(name)
get_sop_by_name(sops, name) ==
    IF \E i \in 1..Len(sops) : sops[i].name = name
    THEN [kind |-> "record",
          value |-> <<sops[CHOOSE i \in 1..Len(sops) : sops[i].name = name]>>]
    ELSE NoResult

\* Mutation of the test of get_sop_by_id: the ids compared as they are
IdMatchesExact(sop_data, document_id) == sop_data.document_id = document_id

\* The test of the loop of get_sop_by_id
IdMatches(sop_data, document_id) == upper(sop_data.document_id) = upper(document_id)

\* The loop of get_sop_by_id: the first record of sops.values() that matches
get_sop_by_id(sops, document_id) ==
    IF \E i \in 1..Len(sops) : IdMatches(sops[i], document_id)
    THEN [kind |-> "record",
          value |-> <<sops[CHOOSE i \in 1..Len(sops) :
                            /\ IdMatches(sops[i], document_id)
                            /\ \A k \in 1..(i - 1) : ~IdMatches(sops[k], document_id)]>>]
    ELSE NoResult

\* x put into the sorted `rest` after the n elements that are to stay before it
InsertAfter(rest, x, n) == SubSeq(rest, 1, n) \o <<x>> \o SubSeq(rest, n + 1, Len(rest))

\* x put into `rest` (sorted by name) after the elements whose name is not greater
InsertByName(rest, x) ==
    InsertAfter(rest, x, Cardinality({i \in 1..Len(rest) : ~StrLess(x.name, rest[i].name)}))

RECURSIVE SortByName(_)
\* sop_list.sort(key=lambda x: x['name']): stable
SortByName(q) ==
    IF q = <<>> THEN <<>>
    ELSE InsertByName(SortByName(SubSeq(q, 1, Len(q) - 1)), q[Len(q)])

\* list_sops over the loaded mapping: the basic metadata, sorted by name
list_sops(sops) ==
    SortByName([i \in 1..Len(sops) |->
                [name             |-> sops[i].name,
                 title            |-> sops[i].title,
                 document_id      |-> sops[i].document_id,
                 version          |-> sops[i].version,
                 effective_date   |-> sops[i].effective_date,
                 owner            |-> sops[i].owner,
                 word_count       |-> sops[i].word_count,
                 storage_location |-> sops[i].storage_location]])

RECURSIVE CountFrom(_, _, _)
\* s[i:].count(sub) for a non-empty sub of the given width that occurs in s at
\* the indices `hits`: the scan takes the first occurrence at or after i and
\* goes on behind it, so the occurrences counted do not overlap
CountFrom(hits, width, i) ==
    IF \A j \in hits : j < i THEN 0
    ELSE 1 + CountFrom(hits, width, Least({j \in hits : j >= i}) + width)

\* str.count
count(s, sub) == CountFrom({j \in 1..Len(s) : StartsAt(s, j, sub)}, Len(sub), 1)

\* Mutation of the blank test: the keyword not stripped
IsBlankUnstripped(keyword) == keyword = <<>>

\* not keyword.strip()
IsBlank(keyword) == strip(keyword) = <<>>

\* The arguments search_sops gives _extract_excerpts, and its limit on the
\* excerpts of a result
max_excerpts == 3

context_chars == 150

ExcerptLimit == 5

\* The keywords searched for that are not blank.
Keywords == {<<"a","b">>, <<"a","a">>}

KeywordInputs == {<<>>, <<" ","\n">>} \cup Keywords

TitleSection == <<"T","i","t","l","e">>

ContentSection == <<"C","o","n","t","e","n","t">>

Ellipsis == <<".",".",".">>

Max(a, b) == IF a > b THEN a ELSE b

Min(a, b) == IF a < b THEN a ELSE b

RECURSIVE Ascending(_)
\* The elements of a finite set of integers in increasing order
Ascending(S) == IF S = {} THEN <<>> ELSE <<Least(S)>> \o Ascending(S \ {Least(S)})

\* q[:n]
Take(q, n) == SubSeq(q, 1, Min(n, Len(q)))

\* The loop of content_lower.find(keyword_lower, start) with start = pos + 1:
\* every index (from 0) at which the keyword occurs, overlapping ones included
find_positions(content_lower, keyword_lower) ==
    Ascending({i - 1 : i \in {j \in 1..Len(content_lower) :
                                StartsAt(content_lower, j, keyword_lower)}})

\* start_pos and end_pos of the excerpt around the match at pos
Window(content, keyword, pos, context) ==
    [pos       |-> pos,
     start_pos |-> Max(0, pos - context),
     end_pos   |-> Min(Len(content), pos + Len(keyword) + context)]

\* Mutation of the overlap test: no window is taken to overlap another
OverlapsNever(used_ranges, w) == FALSE

\* any(not (end_pos <= r[0] or start_pos >= r[1]) for r in used_ranges)
Overlaps(used_ranges, w) ==
    \E j \in 1..Len(used_ranges) :
        ~(w.end_pos <= used_ranges[j].start_pos \/ w.start_pos >= used_ranges[j].end_pos)

\* The body of the loop over the positions: the window is used when it
\* overlaps none of those used and fewer than `most` excerpts are taken
Consider(used_ranges, w, most) ==
    IF ~Overlaps(used_ranges, w) /\ Len(used_ranges) < most
    THEN Append(used_ranges, w)
    ELSE used_ranges

RECURSIVE Pick(_, _, _, _, _, _)
Pick(content, keyword, positions, used_ranges, most, context) ==
    IF positions = <<>> THEN used_ranges
    ELSE Pick(content, keyword, Tail(positions),
              Consider(used_ranges, Window(content, keyword, Head(positions), context), most),
              most, context)

\* used_ranges at the end of _extract_excerpts, each with its match position
excerpt_windows(content, keyword, most, context) ==
    Pick(content, keyword,
         Take(find_positions(lower(content), lower(keyword)), most * 2),
         <<>>, most, context)

\* ^(#{1,3})\s+(.+)$ (MULTILINE) with the first '#' at index i of s: the
\* number of '#' from i on, and where group 2 can start after h of them
HeadingHashes(s, i) == Least({j \in i..(Len(s) + 1) : j = Len(s) + 1 \/ s[j] # "#"}) - i

HeadingStarts(s, i, h) ==
    {c \in (i + h + 1)..SkipSpaces(s, i + h) : c <= Len(s) /\ s[c] # "\n"}

HeadingMatchesAt(s, i) ==
    /\ s[i] = "#"
    /\ (i = 1 \/ s[i - 1] = "\n")
    /\ HeadingHashes(s, i) <= 3
    /\ HeadingStarts(s, i, HeadingHashes(s, i)) # {}

\* Where group 2 of the match at i starts
HeadingGroup(s, i) == Greatest(HeadingStarts(s, i, HeadingHashes(s, i)))

RECURSIVE LastHeading(_, _, _)
RECURSIVE NextHeading(_, _, _)
\* re.finditer over s from index `from` on: the title of the last match,
\* `last` when there is none; a match ends at the end of the line of group 2
LastHeading(s, from, last) ==
    NextHeading(s, last, {i \in from..Len(s) : HeadingMatchesAt(s, i)})

NextHeading(s, last, heads) ==
    IF heads = {} THEN last
    ELSE LastHeading(s, LineEnd(s, HeadingGroup(s, Least(heads))),
                     RestOfLine(s, HeadingGroup(s, Least(heads))))

\* _find_section_for_position: the title of the last heading matched in
\* content[:position]; <<>> stands for None
find_section_for_position(content, position) ==
    LastHeading(SubSeq(content, 1, position), 1, <<>>)

\* section_name or 'Content'
SectionOr(section_name) == IF section_name = <<>> THEN ContentSection ELSE section_name

\* f"...{excerpt_text}..." if start_pos > 0 or end_pos < len(content)
ExcerptText(content, w, excerpt_text) ==
    IF w.start_pos > 0 \/ w.end_pos < Len(content)
    THEN Ellipsis \o excerpt_text \o Ellipsis
    ELSE excerpt_text

\* The excerpt appended for the window w; excerpt_text is the stripped slice
ExcerptOf(content, keyword, w, excerpt_text) ==
    [section     |-> SectionOr(find_section_for_position(content, w.pos)),
     text        |-> ExcerptText(content, w, excerpt_text),
     match_count |-> count(lower(excerpt_text), lower(keyword))]

Excerpt(content, keyword, w) ==
    ExcerptOf(content, keyword, w, strip(SubSeq(content, w.start_pos + 1, w.end_pos)))

ExcerptsOf(content, keyword, windows) ==
    [i \in 1..Len(windows) |-> Excerpt(content, keyword, windows[i])]

\* _extract_excerpts(content, keyword, max_excerpts, context_chars)
extract_excerpts(content, keyword, most, context) ==
    ExcerptsOf(content, keyword, excerpt_windows(content, keyword, most, context))

\* used_ranges of _extract_excerpts as search_sops calls it, for each text
\* and keyword
Windowed ==
    [d \in Docs |-> [k \in KeywordInputs \ {<<>>} |->
        excerpt_windows(TextOf[d], k, max_excerpts, context_chars)]]

\* _extract_excerpts as search_sops calls it, for each text and keyword
Excerpted ==
    [d \in Docs |-> [k \in KeywordInputs \ {<<>>} |->
        ExcerptsOf(TextOf[d], k, Windowed[d][k])]]

\* min(total_matches / 10.0, 1.0), and 0.3 more, capped at 1.0, when the title
\* matches; in hundredths
Capped(score) == IF score < 100 THEN score ELSE 100

relevance_score(total_matches, title_matches) ==
    IF title_matches > 0
    THEN Capped(Capped(total_matches * 10) + 30)
    ELSE Capped(total_matches * 10)

\* The entry of `matches` for the title, when the keyword occurs in it
TitleMatch(sop_data, title_matches) ==
    IF title_matches > 0
    THEN <<[section |-> TitleSection, text |-> sop_data.title, match_count |-> title_matches]>>
    ELSE <<>>

\* The entries of `matches` for the content, when the keyword occurs in it
ContentMatches(sop_data, keyword, content_matches) ==
    IF content_matches > 0 THEN Excerpted[sop_data.content][keyword] ELSE <<>>

RECURSIVE TitleSum(_)
\* sum(m['match_count'] for m in matches if m['section'] == 'Title')
TitleSum(matches) ==
    IF matches = <<>> THEN 0
    ELSE (IF Head(matches).section = TitleSection THEN Head(matches).match_count ELSE 0)
            + TitleSum(Tail(matches))

\* The result search_sops appends for one document; total_matches = 0 when
\* it appends none.
Result(sop_data, total_matches, matches) ==
    [name            |-> sop_data.name,
     title           |-> sop_data.title,
     document_id     |-> sop_data.document_id,
     relevance_score |-> relevance_score(total_matches, TitleSum(matches)),
     total_matches   |-> total_matches,
     excerpts        |-> Take(matches, ExcerptLimit)]

\* Mutation of the order of lines 398-425: the content searched before the title
SearchedContentFirst(sop_data, keyword, title_matches, content_matches) ==
    Result(sop_data, title_matches + content_matches,
           ContentMatches(sop_data, keyword, content_matches)
                \o TitleMatch(sop_data, title_matches))

Searched(sop_data, keyword, title_matches, content_matches) ==
    Result(sop_data, title_matches + content_matches,
           TitleMatch(sop_data, title_matches)
                \o ContentMatches(sop_data, keyword, content_matches))

search_result(sop_data, keyword, search_in) ==
    Searched(sop_data, keyword,
             IF search_in \in {"title", "all"}
             THEN count(lower(sop_data.title), lower(keyword)) ELSE 0,
             IF search_in \in {"content", "all"}
             THEN count(LowerText[sop_data.content], lower(keyword)) ELSE 0)

\* x put into `rest` (sorted by score, descending) after the elements whose
\* score is not less
InsertByScore(rest, x) ==
    InsertAfter(rest, x, Cardinality({i \in 1..Len(rest) :
                                        rest[i].relevance_score >= x.relevance_score}))

\* Mutation of the sort of line 447: the results left in cache order
SortByScoreOmitted(q) == q

RECURSIVE SortByScore(_)
\* results.sort(key=lambda x: x['relevance_score'], reverse=True): stable
SortByScore(q) ==
    IF q = <<>> THEN <<>>
    ELSE InsertByScore(SortByScore(SubSeq(q, 1, Len(q) - 1)), q[Len(q)])

\* Mutation of the test of line 428: a document without a match is appended too
MatchedAny(r) == TRUE

\* if total_matches > 0
Matched(r) == r.total_matches > 0

\* search_sops over the loaded mapping, for a keyword that is not blank
search_sops(sops, keyword, search_in) ==
    SortByScore(SelectSeq([i \in 1..Len(sops) |-> search_result(sops[i], keyword, search_in)],
                          Matched))

\* Mutation of the tool's normalisation: the name looked up as given
normalize_name_missing(name) == name

\* The key the get_sop_by_name tool looks up: '.md' appended when missing
normalize_name(name) == IF endswith(name, DotMd) THEN name ELSE name \o DotMd

\* The answer of the get_sop_by_name tool for the key `name` with the
\* extension: the record `sop` found, or the error with the names listed
ToolResponse(sop, name, available) ==
    IF sop.kind = "record" THEN sop
    ELSE [kind |-> "not_found",
          value |-> <<[error |-> name,
                       available_sops |-> [i \in 1..Len(available) |-> available[i].name]]>>]

ToolLookup(sops, name, available) == ToolResponse(get_sop_by_name(sops, name), name, available)

\* What the get_sop_by_name tool answers from the mapping `sops` the first
\* load returns and the listing `available` of the second
tool_get_sop_by_name(sops, name, available) ==
    ToolLookup(sops, normalize_name(name), available)

\* get_cache_info() of a loader whose mapping is `cache`, with timestamp ts
get_cache_info(cache, ts) ==
    [cached_sops       |-> Len(cache),
     cache_timestamp   |-> ts,
     cache_valid       |-> is_cache_valid(ts),
     cache_ttl_seconds |-> config.cache_ttl_seconds,
     storage_mode      |-> IF use_s3 THEN "s3" ELSE "local",
     base_path         |-> config.base_path,
     s3_bucket         |-> IF use_s3 THEN <<config.s3_bucket>> ELSE <<>>,
     s3_prefix         |-> IF use_s3 THEN <<config.s3_prefix>> ELSE <<>>]

\* Mutation of the health check: the status does not depend on the load
data_status_any(sops) == "healthy"

\* data_status = "healthy" if sops else "unhealthy"
data_status(sops) == IF sops # <<>> THEN "healthy" ELSE "unhealthy"

\* The JSONResponse of the health check for a status and the cache info
HealthResponse(status, cache_info) ==
    [kind  |-> "health",
     value |-> <<[status       |-> status,
                  status_code  |-> IF status = "healthy" THEN 200 ELSE 503,
                  storage_type |-> cache_info.storage_mode,
                  sop_count    |-> cache_info.cached_sops]>>]

\* The JSONResponse of the handler of the health check
HealthError ==
    [kind  |-> "health",
     value |-> <<[status |-> "error", status_code |-> 500,
                  storage_type |-> "unknown", sop_count |-> 0]>>]

\* health_check: the mapping load_sops returned decides the status; the
\* cache info is read after the load
health_check(sops, cache_info) == HealthResponse(data_status(sops), cache_info)

----------------------------------------------------------------------------
(* start_all_servers.py: the ServerManager *)

\* len(SERVERS)
NServers == 5

\* The restarts the monitor attempts
MaxRestarts == 2

\* How a call of start_server can end: the script is not found, Popen
\* raises, the child has exited when it is polled after two seconds, or it
\* runs.
StartOutcomes == {"missing", "raises", "exits", "runs"}

\* ServerManager.__init__: no process yet.  `alive` is the set of the
\* children that run, `pc` and `i` are where main() and the loop of
\* monitor_servers stand.
NewManager ==
    [processes |-> <<>>, alive |-> {}, spawned |-> 0, restarts |-> 0,
     pc |-> "new", i |-> 0]

\* The Popen object of the child `pid`, started from the script of SERVERS[k]
Process(pid, k) == [pid |-> pid, server |-> k]

\* subprocess.Popen(...) and self.processes.append(process)
Spawn(m, k) ==
    [m EXCEPT !.processes = Append(@, Process(m.spawned + 1, k)), !.spawned = @ + 1]

\* The manager after start_server(SERVERS[k]) ended as `outcome`
start_server(m, k, outcome) ==
    IF outcome \in {"missing", "raises"} THEN m
    ELSE IF outcome = "exits" THEN Spawn(m, k)
    ELSE [Spawn(m, k) EXCEPT !.alive = @ \cup {m.spawned + 1}]

\* What start_server returns
started(outcome) == outcome = "runs"

RECURSIVE StartEach(_, _, _)
\* The loop of start_all_servers from SERVERS[k] on
StartEach(m, k, outcomes) ==
    IF k > NServers THEN m
    ELSE StartEach(start_server(m, k, outcomes[k]), k + 1, outcomes)

\* stop_all_servers: each tracked child that runs is terminated, the list
\* is cleared
stop_all_servers(m) ==
    [m EXCEPT !.alive = @ \ {m.processes[k].pid : k \in 1..Len(m.processes)},
              !.processes = <<>>]

\* self.processes[i] = self.processes[-1]
ReplaceWithLast(m, i) == [m EXCEPT !.processes[i] = m.processes[Len(m.processes)]]

\* Lines 167-173 for the dead process at index i: the restart and, when it
\* succeeds, the replacement
Restart(m, i, outcome) ==
    IF started(outcome)
    THEN ReplaceWithLast(start_server(m, i, outcome), i)
    ELSE start_server(m, i, outcome)

\* The for loop goes on to the next index of the list as it is now, or ends
Advance(m) ==
    IF m.i + 1 > Len(m.processes)
    THEN [m EXCEPT !.pc = "sleeping", !.i = 0]
    ELSE [m EXCEPT !.i = @ + 1]

----------------------------------------------------------------------------
(* anomaly_root_cause_agent.py: the shared MCP client and agent *)

\* The calls of the tool that are followed
MaxCalls == 4

\* How a call of anomaly_root_cause_agent can end: MCPClient(...) raises,
\* start() raises, list_tools_sync() raises, get_bedrock_model_for_agent
\* raises, Agent(...) raises, agent(full_query) raises, or a result comes.
CallOutcomes ==
    {"client_raises", "start_raises", "tools_raise", "model_raises", "agent_raises",
     "query_raises", "ok"}

\* The outcomes in which start() returned and the agent was not built
BuildFails == {"tools_raise", "model_raises", "agent_raises"}

\* The module as imported: _mcp_client = None, _agent_instance = None.
\* `created`, `started` and `agents` count the MCPClient objects made, the
\* calls of start() that returned, and the Agent objects made.
Imported ==
    [mcp_client |-> FALSE, agent_instance |-> FALSE, running |-> FALSE,
     created |-> 0, start_calls |-> 0, started |-> 0, agents |-> 0, history |-> <<>>]

\* _get_mcp_client
get_mcp_client(a, outcome) ==
    IF a.mcp_client \/ outcome = "client_raises" THEN a
    ELSE [a EXCEPT !.mcp_client = TRUE, !.created = @ + 1]

\* mcp_client.start().  What start() does with a client that is running is
\* the library's: it raises, or it starts the client again.
start(a, outcome) ==
    IF ~a.mcp_client THEN a
    ELSE IF outcome = "start_raises" THEN [a EXCEPT !.start_calls = @ + 1]
    ELSE [a EXCEPT !.start_calls = @ + 1, !.started = @ + 1, !.running = TRUE]

\* Lines 76-87: the client, its start, the tools, the model and the Agent
build_agent(a, outcome) ==
    IF outcome \in BuildFails \cup {"client_raises", "start_raises"} THEN a
    ELSE [a EXCEPT !.agent_instance = TRUE, !.agents = @ + 1]

\* _get_agent_instance
get_agent_instance(a, outcome) ==
    IF a.agent_instance THEN a
    ELSE build_agent(start(get_mcp_client(a, outcome), outcome), outcome)

\* The outcomes a call can have with the globals as they are
Possible(a) ==
    IF a.agent_instance THEN {"query_raises", "ok"}
    ELSE IF a.mcp_client THEN CallOutcomes \ {"client_raises"}
    ELSE CallOutcomes

----------------------------------------------------------------------------
(* json_data_loader.py: the JSONDataLoader *)

ErpPath == "erp/business_data.json"

CmmsPath == "cmms/maintenance_data.json"

JsonPaths == {ErpPath, CmmsPath}

\* The file each getter asks for
Getters ==
    [get_factory_model |-> ErpPath, get_erp_data |-> ErpPath, get_cmms_data |-> CmmsPath]

\* What a file can hold: two JSON documents, a JSON document cut short, and
\* bytes that are not UTF-8.  `decodes` is whether f.read() returns text,
\* `data` what json.loads makes of the text.
JsonContents ==
    [V1  |-> [decodes |-> TRUE,  parses |-> TRUE,  data |-> "D1"],
     V2  |-> [decodes |-> TRUE,  parses |-> TRUE,  data |-> "D2"],
     Cut |-> [decodes |-> TRUE,  parses |-> FALSE, data |-> "NoData"],
     Raw |-> [decodes |-> FALSE, parses |-> FALSE, data |-> "NoData"]]

Missing == "Missing"

JsonFiles == DOMAIN JsonContents \cup {Missing}

\* No entry under a key of the cache
NotCached == "NotCached"

\* {"data": {}}
EmptyData == "EmptyData"

\* An exception that _load_json_file does not catch
JsonRaised == "Raised"

NoRequest ==
    [op |-> "none", getter |-> "none", path |-> "none", cached |-> NotCached,
     read |-> FALSE, ret |-> "none"]

\* JSONDataLoader.__init__, over files that exist
NewJsonLoader ==
    [cache |-> [path \in JsonPaths |-> NotCached],
     files |-> [path \in JsonPaths |-> "V1"],
     last  |-> NoRequest]

\* json.load(f) of lines 32-33 on a file that exists: the data, the
\* JSONDecodeError caught at line 40, or the UnicodeDecodeError of f.read(),
\* which no handler catches
json_load(content) ==
    IF ~JsonContents[content].decodes THEN JsonRaised
    ELSE IF ~JsonContents[content].parses THEN EmptyData
    ELSE JsonContents[content].data

\* Mutation of _load_json_file: what a failure returns is cached as well
cache_after_any_read(cache, path, file) ==
    IF file = Missing THEN [cache EXCEPT ![path] = EmptyData]
    ELSE IF json_load(file) = JsonRaised THEN cache
    ELSE [cache EXCEPT ![path] = json_load(file)]

\* Line 34: self._cache[file_path] = data, reached by a successful parse only
cache_after_read(cache, path, file) ==
    IF file # Missing /\ JsonContents[file].decodes /\ JsonContents[file].parses
    THEN [cache EXCEPT ![path] = JsonContents[file].data]
    ELSE cache

\* What _load_json_file returns for a path that is not cached
read_json_file(file) == IF file = Missing THEN EmptyData ELSE json_load(file)

\* _load_json_file(file_path), called by `getter`
load_json_file(l, getter, path) ==
    IF l.cache[path] # NotCached
    THEN [l EXCEPT !.last = [op |-> "load", getter |-> getter, path |-> path,
                             cached |-> l.cache[path], read |-> FALSE,
                             ret |-> l.cache[path]]]
    ELSE [l EXCEPT !.cache = cache_after_read(l.cache, path, l.files[path]),
                   !.last = [op |-> "load", getter |-> getter, path |-> path,
                             cached |-> NotCached, read |-> TRUE,
                             ret |-> read_json_file(l.files[path])]]

----------------------------------------------------------------------------
(* Concurrent callers of load_sops *)

Threads == {"t1", "t2"}

\* A thread that is not in load_sops
NotCalling ==
    [pc |-> "idle", force_refresh |-> FALSE, filenames |-> <<>>, k |-> 0,
     sops |-> <<>>, ret |-> <<>>]

\* sops[filename] = record: the value under an existing key is replaced
Put(sops, record) ==
    IF \E i \in DOMAIN sops : sops[i].name = record.name
    THEN [i \in DOMAIN sops |-> IF sops[i].name = record.name THEN record ELSE sops[i]]
    ELSE Append(sops, record)

\* Lines 314-329 for one listed file
PutEntry(sops, entry) == IF entry = <<>> THEN sops ELSE Put(sops, entry[1])

\* Mutation of line 308: sops is the cached dict itself, so that each entry
\* is written into the cache as it is read
written_into_cache(cache, entry) == PutEntry(cache, entry)

\* Line 308: sops = {} is a dict of the caller's own, and the cache is not
\* touched while the files are read
written_by_read(cache, entry) == cache

\* No concurrent caller, the manager not started
InitOthers ==
    /\ manager = NewManager
    /\ threads = [t \in Threads |-> NotCalling]
    /\ passes = {}
    /\ agent = Imported
    /\ json_loader = NewJsonLoader

----------------------------------------------------------------------------
(* The state machine *)

\* The arguments the operations are called with.
ForceInputs == BOOLEAN

KeyInputs == {<<"a">>, <<"c">>}

NameInputs == KeyInputs \cup {x \o DotMd : x \in KeyInputs}

IdInputs == {<<>>, <<"A","B">>, <<"z">>}

ScopeInputs == {"title", "content", "all"}

\* Where an injected exception can strike: at none, or at the n-th listed file.
ExcInputs == 0..Cardinality({f \in FileNames : endswith(f, DotMd)})

NoArg == [text |-> <<>>, search_in |-> "", force_refresh |-> FALSE]

Snapshot ==
    [sop_cache |-> sop_cache, cache_timestamp |-> cache_timestamp,
     use_s3 |-> use_s3, s3_client |-> s3_client, config |-> config,
     cleared |-> cleared, ever_loaded |-> ever_loaded]

\* SOPDataLoader.__init__ with the defaults of its arguments
InitConfig ==
    [base_path |-> "manufacturing-data/sop", s3_bucket |-> "manufacturing-systems-data",
     s3_prefix |-> "sop/", cache_ttl_seconds |-> cache_ttl_seconds]

\* The arguments of the constructor, use_s3 among them, and whether the
\* bucket could be reached when the constructor tried (never tried: FALSE)
Config(requested, reachable) ==
    [base_path        |-> InitConfig.base_path,
     s3_bucket        |-> InitConfig.s3_bucket,
     s3_prefix        |-> InitConfig.s3_prefix,
     cache_ttl_seconds |-> InitConfig.cache_ttl_seconds,
     use_s3           |-> requested,
     s3_reachable     |-> reachable]

\* self.use_s3 and self._s3_client as lines 39 and 57 set them
LocalMode == [use_s3 |-> FALSE, s3_client |-> FALSE]

\* Mutation of _init_s3_client: the handlers drop the client and leave
\* use_s3 as requested
init_s3_client_keeps_mode(reachable) ==
    IF reachable THEN [use_s3 |-> TRUE, s3_client |-> TRUE]
    ELSE [use_s3 |-> TRUE, s3_client |-> FALSE]

\* _init_s3_client: the client is kept when boto3.client and head_bucket
\* succeed; NoCredentialsError, ClientError and any other exception each set
\* use_s3 to False and the client to None
init_s3_client(reachable) ==
    IF reachable THEN [use_s3 |-> TRUE, s3_client |-> TRUE] ELSE LocalMode

\* if self.use_s3: self._init_s3_client()
StorageMode(requested, reachable) ==
    IF requested THEN init_s3_client(reachable) ELSE LocalMode

\* The storage mode and the configuration a constructed loader has
Constructed(requested, reachable) ==
    /\ use_s3 = StorageMode(requested, reachable).use_s3
    /\ s3_client = StorageMode(requested, reachable).s3_client
    /\ config = Config(requested, reachable)

InitCommon ==
    /\ \E requested \in BOOLEAN, reachable \in BOOLEAN :
            /\ requested \/ ~reachable
            /\ Constructed(requested, reachable)
    /\ sop_cache = <<>>
    /\ cache_timestamp = None
    /\ now = 0
    /\ location = "ok"
    /\ store = [f \in FileNames |->
                    IF f = AMd THEN File("DocA") ELSE IF f = BMd THEN File("DocB")
                    ELSE File("DocC")]
    /\ cleared = FALSE
    /\ ever_loaded = FALSE
    /\ op = "idle"
    /\ arg = NoArg
    /\ ret = NoResult
    /\ calls = <<>>
    /\ raised = FALSE
    /\ pre = Snapshot
    /\ InitOthers

Init == InitCommon /\ fault_injection = FALSE

InitFault == InitCommon /\ fault_injection = TRUE

\* What each entry can become in a backend that holds files given by their
\* bytes.
ByteEntries ==
    [f \in FileNames |->
        IF f = AMd THEN {File("DocA"), Bytes("RawBad"), Bytes("RawOk")}
        ELSE IF f = BMd THEN {File("DocB"), Bytes("RawBad"), Absent}
        ELSE {File("DocC")}]

\* A loader constructed over a backend one of whose files has a malformed byte
InitBytes ==
    /\ \E requested \in BOOLEAN, reachable \in BOOLEAN :
            /\ requested \/ ~reachable
            /\ Constructed(requested, reachable)
    /\ sop_cache = <<>>
    /\ cache_timestamp = None
    /\ now = 0
    /\ location = "ok"
    /\ store = [f \in FileNames |->
                    IF f = AMd THEN Bytes("RawBad") ELSE IF f = BMd THEN File("DocB")
                    ELSE File("DocC")]
    /\ fault_injection = FALSE
    /\ cleared = FALSE
    /\ ever_loaded = FALSE
    /\ op = "idle"
    /\ arg = NoArg
    /\ ret = NoResult
    /\ calls = <<>>
    /\ raised = FALSE
    /\ pre = Snapshot
    /\ InitOthers

\* What the file at each path can become in a backend with subdirectories.
PathEntries ==
    [f \in Paths |->
        IF f = AMd THEN {File("DocA"), Absent}
        ELSE IF f = BMd THEN {File("DocB"), Absent}
        ELSE IF f = NTxt THEN {File("DocC")}
        ELSE {File("DocC"), Absent}]

\* What can be the matter with the directory or the bucket.
Locations == {"ok", "missing", "unreadable"}

\* What each entry can become while the concurrent callers run.
ThreadEntries ==
    [f \in FileNames |->
        IF f = AMd THEN {File("DocA"), File("DocC")}
        ELSE IF f = BMd THEN {File("DocB"), Absent}
        ELSE {File("DocC")}]

\* A loader of the local directory that threads are about to share
InitThreads ==
    /\ Constructed(FALSE, FALSE)
    /\ sop_cache = <<>>
    /\ cache_timestamp = None
    /\ now = 0
    /\ location = "ok"
    /\ store = [f \in FileNames |->
                    IF f = AMd THEN File("DocA") ELSE IF f = BMd THEN File("DocB")
                    ELSE File("DocC")]
    /\ fault_injection = TRUE
    /\ cleared = FALSE
    /\ ever_loaded = FALSE
    /\ op = "idle"
    /\ arg = NoArg
    /\ ret = NoResult
    /\ calls = <<>>
    /\ raised = FALSE
    /\ pre = Snapshot
    /\ InitOthers

\* A loader constructed over a backend with subdirectories
InitListing ==
    /\ \E requested \in BOOLEAN, reachable \in BOOLEAN :
            /\ requested \/ ~reachable
            /\ Constructed(requested, reachable)
    /\ sop_cache = <<>>
    /\ cache_timestamp = None
    /\ now = 0
    /\ location \in Locations
    /\ store = [f \in Paths |->
                    IF f = AMd THEN File("DocA") ELSE IF f = NTxt THEN File("DocC")
                    ELSE Absent]
    /\ fault_injection = FALSE
    /\ cleared = FALSE
    /\ ever_loaded = FALSE
    /\ op = "idle"
    /\ arg = NoArg
    /\ ret = NoResult
    /\ calls = <<>>
    /\ raised = FALSE
    /\ pre = Snapshot
    /\ InitOthers

\* A loader constructed over a backend whose document has a header block or
\* an outline
InitMetadata ==
    /\ \E requested \in BOOLEAN, reachable \in BOOLEAN :
            /\ requested \/ ~reachable
            /\ Constructed(requested, reachable)
    /\ sop_cache = <<>>
    /\ cache_timestamp = None
    /\ now = 0
    /\ location = "ok"
    /\ \E d \in MetaDocs \cup OutlineDocs :
            store = [f \in FileNames |->
                        IF f = AMd THEN File(d) ELSE IF f = BMd THEN Absent
                        ELSE File("DocC")]
    /\ fault_injection = FALSE
    /\ cleared = FALSE
    /\ ever_loaded = FALSE
    /\ op = "idle"
    /\ arg = NoArg
    /\ ret = NoResult
    /\ calls = <<>>
    /\ raised = FALSE
    /\ pre = Snapshot
    /\ InitOthers

\* A loader constructed over a backend whose one document is a long one
InitSearch ==
    /\ \E requested \in BOOLEAN, reachable \in BOOLEAN :
            /\ requested \/ ~reachable
            /\ Constructed(requested, reachable)
    /\ sop_cache = <<>>
    /\ cache_timestamp = None
    /\ now = 0
    /\ location = "ok"
    /\ \E d \in LongDocs :
            store = [f \in FileNames |->
                        IF f = AMd THEN File(d) ELSE IF f = BMd THEN Absent
                        ELSE File("DocC")]
    /\ fault_injection = FALSE
    /\ cleared = FALSE
    /\ ever_loaded = FALSE
    /\ op = "idle"
    /\ arg = NoArg
    /\ ret = NoResult
    /\ calls = <<>>
    /\ raised = FALSE
    /\ pre = Snapshot
    /\ InitOthers

\* No operation is in progress: the caller of the last one has its result.
Idle == op = "idle"

\* An exception strikes only where the environment injects one.
ExcOk(cache, ts, force_refresh, exc) ==
    exc = 0 \/ (fault_injection /\ CanRaise(cache, ts, force_refresh, exc))

\* The effect on the loader of an operation whose calls of load_sops end in
\* the outcome r, having made the backend calls c.
Loaded(r, c, exception, completed) ==
    /\ sop_cache' = r.sop_cache
    /\ cache_timestamp' = r.cache_timestamp
    /\ calls' = c
    /\ raised' = exception
    /\ ever_loaded' = (ever_loaded \/ completed)
    /\ cleared' = FALSE
    /\ pre' = Snapshot
    /\ UNCHANGED <<others, location, use_s3, s3_client, config, now, store, fault_injection>>

\* load_sops(force_refresh)
LoadSops(force_refresh, exc) ==
    /\ Idle
    /\ ExcOk(sop_cache, cache_timestamp, force_refresh, exc)
    /\ \E r \in {load_sops(sop_cache, cache_timestamp, force_refresh, exc)} :
          /\ Loaded(r, r.calls, r.raised, r.completed)
          /\ op' = "load_sops"
          /\ arg' = [NoArg EXCEPT !.force_refresh = force_refresh]
          /\ ret' = Returned(r, [kind |-> "mapping", value |-> r.ret])

\* list_sops()
ListSops(exc) ==
    /\ Idle
    /\ ExcOk(sop_cache, cache_timestamp, FALSE, exc)
    /\ \E r \in {load_sops(sop_cache, cache_timestamp, FALSE, exc)} :
          /\ Loaded(r, r.calls, r.raised, r.completed)
          /\ op' = "list_sops"
          /\ arg' = NoArg
          /\ ret' = Returned(r, [kind |-> "list", value |-> list_sops(r.ret)])

\* get_sop_by_name(name)
GetSopByName(name, exc) ==
    /\ Idle
    /\ ExcOk(sop_cache, cache_timestamp, FALSE, exc)
    /\ \E r \in {load_sops(sop_cache, cache_timestamp, FALSE, exc)} :
          /\ Loaded(r, r.calls, r.raised, r.completed)
          /\ op' = "get_sop_by_name"
          /\ arg' = [NoArg EXCEPT !.text = name]
          /\ ret' = Returned(r, get_sop_by_name(r.ret, name))

\* get_sop_by_id(document_id)
GetSopById(document_id, exc) ==
    /\ Idle
    /\ ExcOk(sop_cache, cache_timestamp, FALSE, exc)
    /\ \E r \in {load_sops(sop_cache, cache_timestamp, FALSE, exc)} :
          /\ Loaded(r, r.calls, r.raised, r.completed)
          /\ op' = "get_sop_by_id"
          /\ arg' = [NoArg EXCEPT !.text = document_id]
          /\ ret' = Returned(r, get_sop_by_id(r.ret, document_id))

\* The early return of search_sops: nothing of the loader is read or written
ReturnEmptyList ==
    /\ ret' = [kind |-> "list", value |-> <<>>]
    /\ calls' = <<>>
    /\ raised' = FALSE
    /\ pre' = Snapshot
    /\ UNCHANGED <<others, location, use_s3, s3_client, config, sop_cache, cache_timestamp, now, store,
                   fault_injection, cleared, ever_loaded>>

\* Mutation of search_sops: the mapping held is searched as it is, without
\* the call of load_sops
SearchSnapshot(keyword, search_in, exc) ==
    /\ exc = 0
    /\ ret' = [kind |-> "list", value |-> search_sops(sop_cache, keyword, search_in)]
    /\ calls' = <<>>
    /\ raised' = FALSE
    /\ pre' = Snapshot
    /\ UNCHANGED <<others, location, use_s3, s3_client, config, sop_cache, cache_timestamp, now, store,
                   fault_injection, cleared, ever_loaded>>

\* search_sops(keyword, search_in) with a keyword that is not blank
SearchLoaded(keyword, search_in, exc) ==
    /\ ExcOk(sop_cache, cache_timestamp, FALSE, exc)
    /\ \E r \in {load_sops(sop_cache, cache_timestamp, FALSE, exc)} :
          /\ Loaded(r, r.calls, r.raised, r.completed)
          /\ ret' = Returned(r, [kind |-> "list",
                                  value |-> search_sops(r.ret, keyword, search_in)])

\* The search_sops tool with a keyword that is not blank: the search of the
\* loader inside the try block of the tool
ToolSearchLoaded(keyword, search_in, exc) ==
    /\ ExcOk(sop_cache, cache_timestamp, FALSE, exc)
    /\ \E r \in {load_sops(sop_cache, cache_timestamp, FALSE, exc)} :
          /\ Loaded(r, r.calls, r.raised, r.completed)
          /\ ret' = Caught(r, [kind |-> "list",
                                value |-> search_sops(r.ret, keyword, search_in)],
                           [kind |-> "list", value |-> <<>>])

\* search_sops(keyword, search_in)
SearchSops(keyword, search_in, exc) ==
    /\ Idle
    /\ op' = "search_sops"
    /\ arg' = [NoArg EXCEPT !.text = keyword, !.search_in = search_in]
    /\ IF IsBlank(keyword)
       THEN exc = 0 /\ ReturnEmptyList
       ELSE SearchLoaded(keyword, search_in, exc)

\* Mutation of refresh_cache: load_sops called without force_refresh
RefreshCacheUnforced(exc) ==
    /\ Idle
    /\ ExcOk(sop_cache, cache_timestamp, FALSE, exc)
    /\ \E r \in {load_sops(sop_cache, cache_timestamp, FALSE, exc)} :
          /\ Loaded(r, r.calls, r.raised, r.completed)
          /\ op' = "refresh_cache"
          /\ arg' = NoArg
          /\ ret' = Returned(r, NoResult)

\* refresh_cache()
RefreshCache(exc) ==
    /\ Idle
    /\ ExcOk(sop_cache, cache_timestamp, TRUE, exc)
    /\ \E r \in {load_sops(sop_cache, cache_timestamp, TRUE, exc)} :
          /\ Loaded(r, r.calls, r.raised, r.completed)
          /\ op' = "refresh_cache"
          /\ arg' = NoArg
          /\ ret' = Returned(r, NoResult)

\* Mutation of clear_cache: a copy of the mapping is cleared, nothing is reset
ClearCacheNoop ==
    /\ Idle
    /\ cleared' = TRUE
    /\ op' = "clear_cache"
    /\ arg' = NoArg
    /\ ret' = NoResult
    /\ calls' = <<>>
    /\ raised' = FALSE
    /\ pre' = Snapshot
    /\ UNCHANGED <<others, location, use_s3, s3_client, config, sop_cache, cache_timestamp, now, store,
                   fault_injection, ever_loaded>>

\* Mutation of clear_cache: the timestamp is not reset
ClearCacheKeepsTimestamp ==
    /\ Idle
    /\ sop_cache' = <<>>
    /\ cleared' = TRUE
    /\ op' = "clear_cache"
    /\ arg' = NoArg
    /\ ret' = NoResult
    /\ calls' = <<>>
    /\ raised' = FALSE
    /\ pre' = Snapshot
    /\ UNCHANGED <<others, location, use_s3, s3_client, config, cache_timestamp, now, store,
                   fault_injection, ever_loaded>>

\* clear_cache()
ClearCache ==
    /\ Idle
    /\ sop_cache' = <<>>
    /\ cache_timestamp' = None
    /\ cleared' = TRUE
    /\ op' = "clear_cache"
    /\ arg' = NoArg
    /\ ret' = NoResult
    /\ calls' = <<>>
    /\ raised' = FALSE
    /\ pre' = Snapshot
    /\ UNCHANGED <<others, location, use_s3, s3_client, config, now, store, fault_injection, ever_loaded>>

\* The get_sop_by_name tool of the server: the lookup, and on a miss the
\* listing of the names that exist, which calls load_sops a second time
ToolGetSopByName(name, exc1, exc2) ==
    /\ Idle
    /\ ExcOk(sop_cache, cache_timestamp, FALSE, exc1)
    /\ op' = "tool_get_sop_by_name"
    /\ arg' = [NoArg EXCEPT !.text = name]
    /\ \E r1 \in {load_sops(sop_cache, cache_timestamp, FALSE, exc1)} :
          IF r1.escaped \/ get_sop_by_name(r1.ret, normalize_name(name)).kind = "record"
          THEN /\ exc2 = 0
               /\ Loaded(r1, r1.calls, r1.raised, r1.completed)
               /\ ret' = Caught(r1, tool_get_sop_by_name(r1.ret, name, <<>>), ToolError)
          ELSE /\ ExcOk(r1.sop_cache, r1.cache_timestamp, FALSE, exc2)
               /\ \E r2 \in {load_sops(r1.sop_cache, r1.cache_timestamp, FALSE, exc2)} :
                     /\ Loaded(r2, r1.calls \o r2.calls, r1.raised \/ r2.raised,
                               r1.completed \/ r2.completed)
                     /\ ret' = Caught(r2, tool_get_sop_by_name(r1.ret, name,
                                                               list_sops(r2.ret)),
                                      ToolError)

\* The search_sops tool of the server
ToolSearchSops(keyword, search_in, exc) ==
    /\ Idle
    /\ op' = "tool_search_sops"
    /\ arg' = [NoArg EXCEPT !.text = keyword, !.search_in = search_in]
    /\ IF IsBlank(keyword)
       THEN exc = 0 /\ ReturnEmptyList
       ELSE ToolSearchLoaded(keyword, search_in, exc)

\* The /health route of the server
HealthCheck(exc) ==
    /\ Idle
    /\ ExcOk(sop_cache, cache_timestamp, FALSE, exc)
    /\ \E r \in {load_sops(sop_cache, cache_timestamp, FALSE, exc)} :
          /\ Loaded(r, r.calls, r.raised, r.completed)
          /\ op' = "health_check"
          /\ arg' = NoArg
          /\ ret' = Caught(r, health_check(r.ret, get_cache_info(r.sop_cache,
                                                                 r.cache_timestamp)),
                           HealthError)

\* The caller takes the result: nothing of the operation is kept.
Return ==
    /\ ~Idle
    /\ op' = "idle"
    /\ arg' = NoArg
    /\ ret' = NoResult
    /\ calls' = <<>>
    /\ raised' = FALSE
    /\ pre' = Snapshot
    /\ UNCHANGED <<others, location, use_s3, s3_client, config, sop_cache, cache_timestamp, now, store,
                   fault_injection, cleared, ever_loaded>>

\* Time passes between two operations.
Tick ==
    /\ Idle
    /\ \E t \in Instants : t > now /\ now' = t
    /\ UNCHANGED <<others, location, use_s3, s3_client, config, sop_cache, cache_timestamp, store,
                   fault_injection, cleared, ever_loaded, op, arg, ret, calls, raised, pre>>

\* Between two operations a document of the backend is written, removed or
\* made unreadable.
StoreChange ==
    /\ Idle
    /\ \E f \in FileNames : \E e \in Entries[f] :
            store[f] # e /\ store' = [store EXCEPT ![f] = e]
    /\ UNCHANGED <<others, location, use_s3, s3_client, config, sop_cache, cache_timestamp, now,
                   fault_injection, cleared, ever_loaded, op, arg, ret, calls, raised, pre>>

\* Between two operations a file of the backend is overwritten, with
\* well-formed bytes or not, or removed.
StoreChangeBytes ==
    /\ Idle
    /\ \E f \in FileNames : \E e \in ByteEntries[f] :
            store[f] # e /\ store' = [store EXCEPT ![f] = e]
    /\ UNCHANGED <<others, location, use_s3, s3_client, config, sop_cache, cache_timestamp, now,
                   fault_injection, cleared, ever_loaded, op, arg, ret, calls, raised, pre>>

\* A document of the backend is written or removed, whatever the callers
\* are doing.
StoreChangeThreads ==
    /\ \E f \in FileNames : \E e \in ThreadEntries[f] :
            store[f] # e /\ store' = [store EXCEPT ![f] = e]
    /\ UNCHANGED <<others, location, use_s3, s3_client, config, sop_cache, cache_timestamp, now,
                   fault_injection, cleared, ever_loaded, op, arg, ret, calls, raised, pre>>

\* The cache expires, whatever the callers are doing.
TickThreads ==
    /\ now < cache_ttl_seconds
    /\ now' = cache_ttl_seconds
    /\ UNCHANGED <<others, location, use_s3, s3_client, config, sop_cache, cache_timestamp, store,
                   fault_injection, cleared, ever_loaded, op, arg, ret, calls, raised, pre>>

\* _list_sop_files()
ListSopFiles ==
    /\ Idle
    /\ op' = "list_sop_files"
    /\ arg' = NoArg
    /\ ret' = [kind |-> "names", value |-> list_sop_files]
    /\ calls' = <<ListCall>>
    /\ raised' = FALSE
    /\ pre' = Snapshot
    /\ UNCHANGED <<others, location, use_s3, s3_client, config, sop_cache, cache_timestamp, now,
                   store, fault_injection, cleared, ever_loaded>>

\* Between two operations a file is written or removed, at the top of the
\* directory or prefix or below it.
StoreChangePaths ==
    /\ Idle
    /\ \E f \in Paths : \E e \in PathEntries[f] :
            store[f] # e /\ store' = [store EXCEPT ![f] = e]
    /\ UNCHANGED <<others, location, use_s3, s3_client, config, sop_cache, cache_timestamp, now,
                   fault_injection, cleared, ever_loaded, op, arg, ret, calls, raised, pre>>

\* Between two operations the directory or the bucket is removed, made
\* unreadable, or restored.
LocationChange ==
    /\ Idle
    /\ \E l \in Locations : l # location /\ location' = l
    /\ UNCHANGED <<others, use_s3, s3_client, config, sop_cache, cache_timestamp, now, store,
                   fault_injection, cleared, ever_loaded, op, arg, ret, calls, raised, pre>>

\* A thread calls load_sops(force_refresh) or, with force_refresh,
\* refresh_cache(): `not force_refresh` is evaluated.
ThreadCall(t, force_refresh) ==
    /\ threads[t].pc = "idle"
    /\ threads' = [threads EXCEPT ![t] =
                        [NotCalling EXCEPT !.pc = IF force_refresh THEN "list" ELSE "valid",
                                           !.force_refresh = force_refresh]]
    /\ UNCHANGED <<loader, beside_threads, passes>>

\* self._is_cache_valid() of line 303
ThreadValid(t) ==
    /\ threads[t].pc = "valid"
    /\ threads' = [threads EXCEPT ![t].pc =
                        IF is_cache_valid(cache_timestamp) THEN "truthy" ELSE "list"]
    /\ UNCHANGED <<loader, beside_threads, passes>>

\* `and self._sop_cache` of line 303
ThreadTruthy(t) ==
    /\ threads[t].pc = "truthy"
    /\ threads' = [threads EXCEPT ![t].pc = IF sop_cache # <<>> THEN "hit" ELSE "list"]
    /\ UNCHANGED <<loader, beside_threads, passes>>

\* return self._sop_cache of line 305
ThreadHit(t) ==
    /\ threads[t].pc = "hit"
    /\ threads' = [threads EXCEPT ![t].pc = "returned", ![t].ret = sop_cache]
    /\ UNCHANGED <<loader, beside_threads, passes>>

\* sops = {} and filenames = self._list_sop_files()
ThreadList(t) ==
    /\ threads[t].pc = "list"
    /\ threads' = [threads EXCEPT ![t].filenames = list_sop_files,
                                  ![t].k = 1,
                                  ![t].sops = <<>>,
                                  ![t].pc = IF list_sop_files = <<>> THEN "assign" ELSE "read"]
    /\ UNCHANGED <<loader, beside_threads, passes>>

\* One iteration of the loop of lines 313-329
ThreadRead(t) ==
    /\ threads[t].pc = "read"
    /\ \E entry \in {Entry(read_sop_file(threads[t].filenames[threads[t].k]),
                            threads[t].filenames[threads[t].k])} :
          /\ threads' = [threads EXCEPT
                            ![t].sops = PutEntry(@, entry),
                            ![t].k = @ + 1,
                            ![t].pc = IF threads[t].k = Len(threads[t].filenames)
                                      THEN "assign" ELSE "read"]
          /\ sop_cache' = written_by_read(sop_cache, entry)
    /\ UNCHANGED <<beside_threads, passes, use_s3, s3_client, config, cache_timestamp, now, store,
                   location, fault_injection, cleared, ever_loaded, op, arg, ret, calls,
                   raised, pre>>

\* An exception in the loop: the handler of line 337 returns the cache
ThreadRaise(t) ==
    /\ fault_injection
    /\ threads[t].pc = "read"
    /\ threads' = [threads EXCEPT ![t].pc = "returned", ![t].ret = sop_cache,
                                  ![t].sops = <<>>, ![t].filenames = <<>>, ![t].k = 0]
    /\ UNCHANGED <<loader, beside_threads, passes>>

\* self._sop_cache = sops of line 332
ThreadAssignCache(t) ==
    /\ threads[t].pc = "assign"
    /\ sop_cache' = threads[t].sops
    /\ passes' = passes \cup {threads[t].sops}
    /\ ever_loaded' = TRUE
    /\ threads' = [threads EXCEPT ![t].pc = "stamp"]
    /\ UNCHANGED <<beside_threads, use_s3, s3_client, config, cache_timestamp, now, store,
                   location, fault_injection, cleared, op, arg, ret, calls, raised, pre>>

\* self._cache_timestamp = datetime.now() of line 333, and return sops
ThreadAssignTimestamp(t) ==
    /\ threads[t].pc = "stamp"
    /\ cache_timestamp' = now
    /\ threads' = [threads EXCEPT ![t].pc = "returned", ![t].ret = threads[t].sops,
                                  ![t].sops = <<>>, ![t].filenames = <<>>, ![t].k = 0]
    /\ UNCHANGED <<beside_threads, passes, use_s3, s3_client, config, sop_cache, now, store,
                   location, fault_injection, cleared, ever_loaded, op, arg, ret, calls,
                   raised, pre>>

\* Every call has returned; what the loader holds is what the next calls find
Quiesce ==
    /\ \A t \in Threads : threads[t].pc = "returned"
    /\ threads' = [t \in Threads |-> NotCalling]
    /\ passes' = {}
    /\ pre' = Snapshot
    /\ UNCHANGED <<beside_threads, use_s3, s3_client, config, sop_cache, cache_timestamp, now, store,
                   location, fault_injection, cleared, ever_loaded, op, arg, ret, calls,
                   raised>>

\* anomaly_root_cause_agent(query, ...): whatever is raised is caught and
\* returned as a message
AnomalyRootCauseAgent(outcome) ==
    /\ Len(agent.history) < MaxCalls
    /\ outcome \in Possible(agent)
    /\ agent' = [get_agent_instance(agent, outcome) EXCEPT !.history = Append(@, outcome)]
    /\ UNCHANGED <<loader, beside_agent>>

\* get_factory_model(), get_erp_data() or get_cmms_data()
LoadJsonFile(getter) ==
    /\ json_loader' = load_json_file(json_loader, getter, Getters[getter])
    /\ UNCHANGED <<loader, beside_json>>

\* JSONDataLoader.clear_cache()
JsonClearCache ==
    /\ json_loader' = [json_loader EXCEPT
                            !.cache = [path \in JsonPaths |-> NotCached],
                            !.last = [NoRequest EXCEPT !.op = "clear_cache"]]
    /\ UNCHANGED <<loader, beside_json>>

\* A data file is written, damaged or removed between two requests.
JsonFileChange ==
    /\ \E path \in JsonPaths, file \in JsonFiles :
            /\ json_loader.files[path] # file
            /\ json_loader' = [json_loader EXCEPT !.files[path] = file, !.last = NoRequest]
    /\ UNCHANGED <<loader, beside_json>>

\* main(): start_all_servers(), then monitor_servers() when every server
\* started, stop_all_servers() and exit otherwise
StartAllServers(outcomes) ==
    /\ manager.pc = "new"
    /\ manager' =
            IF \A k \in 1..NServers : started(outcomes[k])
            THEN [StartEach(manager, 1, outcomes) EXCEPT !.pc = "sleeping"]
            ELSE [stop_all_servers(StartEach(manager, 1, outcomes)) EXCEPT !.pc = "exited"]
    /\ UNCHANGED <<loader, beside_manager>>

\* time.sleep(10) returns and the for loop starts
MonitorWake ==
    /\ manager.pc = "sleeping"
    /\ manager.processes # <<>>
    /\ manager' = [manager EXCEPT !.pc = "looping", !.i = 1]
    /\ UNCHANGED <<loader, beside_manager>>

\* One iteration of the for loop of monitor_servers.  SERVERS[i] raises
\* IndexError for an index beyond the servers, which nothing catches.
MonitorInspect(outcome) ==
    /\ manager.pc = "looping"
    /\ IF manager.processes[manager.i].pid \in manager.alive
       THEN /\ outcome = "runs"
            /\ manager' = Advance(manager)
       ELSE IF manager.i > NServers
       THEN /\ outcome = "runs"
            /\ manager' = [manager EXCEPT !.pc = "crashed"]
       ELSE /\ manager.restarts < MaxRestarts
            /\ manager' = Advance([Restart(manager, manager.i, outcome)
                                      EXCEPT !.restarts = @ + 1])
    /\ UNCHANGED <<loader, beside_manager>>

\* A child process exits.
ChildDies ==
    /\ manager.pc \in {"sleeping", "looping"}
    /\ \E pid \in manager.alive : manager' = [manager EXCEPT !.alive = @ \ {pid}]
    /\ UNCHANGED <<loader, beside_manager>>

\* KeyboardInterrupt during monitor_servers
Interrupt ==
    /\ manager.pc \in {"sleeping", "looping"}
    /\ manager' = [stop_all_servers(manager) EXCEPT !.pc = "stopped", !.i = 0]
    /\ UNCHANGED <<loader, beside_manager>>

Next ==
    \/ \E f \in ForceInputs, exc \in ExcInputs : LoadSops(f, exc)
    \/ \E exc \in ExcInputs : ListSops(exc)
    \/ \E name \in NameInputs, exc \in ExcInputs : GetSopByName(name, exc)
    \/ \E id \in IdInputs, exc \in ExcInputs : GetSopById(id, exc)
    \/ \E k \in KeywordInputs, scope \in ScopeInputs, exc \in ExcInputs : SearchSops(k, scope, exc)
    \/ \E exc \in ExcInputs : RefreshCache(exc)
    \/ ClearCache
    \/ \E name \in NameInputs, exc1 \in ExcInputs, exc2 \in ExcInputs :
            ToolGetSopByName(name, exc1, exc2)
    \/ \E k \in KeywordInputs, scope \in ScopeInputs, exc \in ExcInputs :
            ToolSearchSops(k, scope, exc)
    \/ \E exc \in ExcInputs : HealthCheck(exc)
    \/ Return
    \/ Tick
    \/ StoreChange

\* The loader in an environment whose failures the backend helpers catch.
\* The searches of a loader
NextSearch ==
    \/ \E k \in KeywordInputs, scope \in ScopeInputs : SearchSops(k, scope, 0)
    \/ Return

\* The loads and lookups of a loader whose backend holds files given by
\* their bytes
NextBytes ==
    \/ \E f \in ForceInputs : LoadSops(f, 0)
    \/ \E name \in NameInputs : GetSopByName(name, 0)
    \/ RefreshCache(0)
    \/ Return
    \/ StoreChangeBytes

\* The manager and its children
NextManager ==
    \/ \E outcomes \in [1..NServers -> StartOutcomes] : StartAllServers(outcomes)
    \/ MonitorWake
    \/ \E outcome \in StartOutcomes : MonitorInspect(outcome)
    \/ ChildDies
    \/ Interrupt

\* Callers of load_sops and refresh_cache in threads of their own, while
\* time passes and the documents change
NextThreads ==
    \/ \E t \in Threads, f \in BOOLEAN : ThreadCall(t, f)
    \/ \E t \in Threads : ThreadValid(t)
    \/ \E t \in Threads : ThreadTruthy(t)
    \/ \E t \in Threads : ThreadHit(t)
    \/ \E t \in Threads : ThreadList(t)
    \/ \E t \in Threads : ThreadRead(t)
    \/ \E t \in Threads : ThreadRaise(t)
    \/ \E t \in Threads : ThreadAssignCache(t)
    \/ \E t \in Threads : ThreadAssignTimestamp(t)
    \/ Quiesce
    \/ TickThreads
    \/ StoreChangeThreads

\* The calls of the anomaly agent
NextAgent == \E outcome \in CallOutcomes : AnomalyRootCauseAgent(outcome)

\* The requests to the JSONDataLoader
NextJson ==
    \/ \E getter \in DOMAIN Getters : LoadJsonFile(getter)
    \/ JsonClearCache
    \/ JsonFileChange

Spec == Init /\ [][Next]_vars

SpecJson == Init /\ [][NextJson]_vars

SpecAgent == Init /\ [][NextAgent]_vars

SpecThreads == InitThreads /\ [][NextThreads]_vars

SpecManager == Init /\ [][NextManager]_vars

SpecBytes == InitBytes /\ [][NextBytes]_vars

\* The loads and lookups of a loader whose document has a header block
NextMetadata ==
    \/ \E name \in NameInputs : GetSopByName(name, 0)
    \/ RefreshCache(0)
    \/ ClearCache
    \/ Return

SpecMetadata == InitMetadata /\ [][NextMetadata]_vars

\* The listings and loads of a loader whose backend has subdirectories and
\* can become unavailable
NextListing ==
    \/ ListSopFiles
    \/ \E f \in ForceInputs : LoadSops(f, 0)
    \/ ListSops(0)
    \/ Return
    \/ Tick
    \/ StoreChangePaths
    \/ LocationChange

SpecListing == InitListing /\ [][NextListing]_vars

SpecSearch == InitSearch /\ [][NextSearch]_vars

\* The same, with exceptions injected into the load pass.
SpecFault == InitFault /\ [][Next]_vars

----------------------------------------------------------------------------
(* What the properties below observe.  While an operation's result is held  *)
(* (op is not "idle"), `pre` is the loader as it was when the operation was *)
(* called, the other variables are the loader as the operation left it, and *)
(* `store` and `now` are what they were during the operation.               *)

\* Less than the TTL had elapsed since the timestamp when the operation was called.
PreWithinTtl ==
    /\ pre.cache_timestamp # None
    /\ now - pre.cache_timestamp < cache_ttl_seconds

\* The TTL had elapsed since the timestamp of an earlier load.
PreExpired ==
    /\ pre.cache_timestamp # None
    /\ now - pre.cache_timestamp >= cache_ttl_seconds

PrePopulated == pre.sop_cache # <<>>

\* The keyword or name passed holds nothing but whitespace.
BlankArg == \A i \in 1..Len(arg.text) : arg.text[i] \in {" ", "\n"}

\* The operations of the loader, and of the tools, that answer from the cache.
LoaderQuery ==
    \/ op \in {"load_sops", "list_sops", "get_sop_by_name", "get_sop_by_id"}
    \/ op = "search_sops" /\ ~BlankArg

ToolQuery ==
    \/ op = "tool_get_sop_by_name"
    \/ op = "tool_search_sops" /\ ~BlankArg

HasMdSuffix(f) ==
    /\ Len(f) >= 3
    /\ f[Len(f) - 2] = "."
    /\ f[Len(f) - 1] = "m"
    /\ f[Len(f)] = "d"

\* The keys the backend lists, and those among them whose content is present.
Listed == {f \in FileNames : store[f].state # "absent" /\ HasMdSuffix(f)}

Stored == {f \in Listed : store[f].state = "file" /\ TextOf[store[f].text] # <<>>}

\* c is one key listing followed by one read of every listed key.
IsFullPass(c) ==
    /\ Len(c) = Cardinality(Listed) + 1
    /\ c[1].call = "list"
    /\ \A i \in 2..Len(c) : c[i].call = "read"
    /\ {c[i].key : i \in 2..Len(c)} = Listed

StartsWithFullPass(c) ==
    /\ Len(c) >= Cardinality(Listed) + 1
    /\ IsFullPass(SubSeq(c, 1, Cardinality(Listed) + 1))

\* The cache mapping is what one complete pass over the backend produces now.
CacheIsPass ==
    /\ Len(sop_cache) = Cardinality(Stored)
    /\ {sop_cache[i].name : i \in 1..Len(sop_cache)} = Stored
    /\ \A i \in 1..Len(sop_cache) :
            /\ sop_cache[i].content = store[sop_cache[i].name].text
            /\ sop_cache[i].last_modified = now

\* The operation rebuilt the cache in full.
FullRebuild ==
    /\ IF LoaderQuery \/ op = "refresh_cache" THEN IsFullPass(calls)
       ELSE StartsWithFullPass(calls)
    /\ CacheIsPass
    /\ cache_timestamp = now

\* C1: load(force_refresh=false) with a populated cache and less than the TTL
\* elapsed returns the cached mapping, makes no backend call, and leaves the
\* mapping and the timestamp as they were.
C1_CachedLoadTouchesNothing ==
    (op = "load_sops" /\ ~arg.force_refresh /\ PrePopulated /\ PreWithinTtl)
        => /\ ret.value = pre.sop_cache
           /\ calls = <<>>
           /\ sop_cache = pre.sop_cache
           /\ cache_timestamp = pre.cache_timestamp

\* C1 at the last second of validity, with the backend no longer what is cached.
C1_Witness ==
    /\ op = "load_sops" /\ ~arg.force_refresh /\ PrePopulated
    /\ pre.cache_timestamp # None
    /\ now - pre.cache_timestamp = cache_ttl_seconds - 1
    /\ ~CacheIsPass
    /\ ret.value = pre.sop_cache

\* C2: once the TTL has elapsed since the timestamp of a load, and on a loader
\* never loaded, the next query lists the backend keys, reads every listed
\* document and replaces the mapping and the timestamp.
C2_ExpiredCacheIsRebuilt ==
    ((LoaderQuery \/ ToolQuery) /\ (PreExpired \/ pre.cache_timestamp = None))
        => FullRebuild

\* C2 at exactly the TTL, the rebuild changing a populated mapping.
C2_Witness ==
    /\ op = "get_sop_by_id"
    /\ PrePopulated
    /\ pre.cache_timestamp # None
    /\ now - pre.cache_timestamp = cache_ttl_seconds
    /\ sop_cache # pre.sop_cache
    /\ IsFullPass(calls)

\* C3: the mapping is empty or the product of one complete pass (all of its
\* records loaded together, at the timestamp), and an operation leaves it as
\* it was, empties it, or replaces it by the product of a complete pass.
C3_CacheIsOnePass ==
    /\ sop_cache # <<>> =>
            /\ cache_timestamp # None
            /\ \A i \in 1..Len(sop_cache) : sop_cache[i].last_modified = cache_timestamp
            /\ \A i, j \in 1..Len(sop_cache) :
                    i # j => sop_cache[i].name # sop_cache[j].name
    /\ ~Idle => \/ sop_cache = pre.sop_cache
                \/ sop_cache = <<>>
                \/ CacheIsPass /\ cache_timestamp = now

\* C3 where a pass was cut short after a document had been read: the earlier
\* mapping, of two documents, stays.
C3_Witness ==
    /\ raised
    /\ Len(calls) >= 3
    /\ Len(pre.sop_cache) = 2
    /\ sop_cache = pre.sop_cache
    /\ ~CacheIsPass

\* C4 as claimed: after an exception in the pass the mapping and the
\* timestamp are as before, the earlier mapping is returned, and an empty
\* mapping is returned only if no load ever succeeded.
C4_AsClaimed ==
    (op = "load_sops" /\ raised)
        => /\ sop_cache = pre.sop_cache
           /\ cache_timestamp = pre.cache_timestamp
           /\ ret.value = pre.sop_cache
           /\ (ret.value = <<>> => ~pre.ever_loaded)

\* C4, amended: the mapping and the timestamp change only when a pass ran to
\* its end; after an exception both are as before and load returns the
\* earlier mapping, which is empty exactly when the mapping was empty at the
\* call (never loaded, cleared, or loaded from a backend without documents).
C4_FailedLoadKeepsCache ==
    /\ ((LoaderQuery \/ op = "refresh_cache") /\ raised)
            => /\ sop_cache = pre.sop_cache
               /\ cache_timestamp = pre.cache_timestamp
    /\ (op = "load_sops" /\ raised)
            => /\ ret.value = pre.sop_cache
               /\ (ret.value = <<>> <=> pre.sop_cache = <<>>)
    /\ ((LoaderQuery \/ op = "refresh_cache")
            /\ (sop_cache # pre.sop_cache \/ cache_timestamp # pre.cache_timestamp))
            => ~raised /\ IsFullPass(calls)

\* C4 with a populated cache: the exception strikes at the second document.
C4_Witness ==
    /\ op = "load_sops" /\ raised
    /\ PrePopulated
    /\ Len(calls) = 3
    /\ ret.value = pre.sop_cache

\* C5: the query that follows clear() reloads from the backend in full,
\* however recent the last load.
C5_QueryAfterClearReloads ==
    ((LoaderQuery \/ ToolQuery) /\ pre.cleared) => FullRebuild

\* C5 with load, clear and query all at the same instant.
C5_Witness ==
    /\ op = "list_sops"
    /\ pre.cleared /\ pre.ever_loaded
    /\ now = 0
    /\ IsFullPass(calls)
    /\ sop_cache # <<>>

\* C6: clear() leaves the mapping empty and the timestamp unset, makes no
\* backend call and leaves the storage mode and the configuration alone.
C6_ClearOnlyEmpties ==
    op = "clear_cache"
        => /\ sop_cache = <<>>
           /\ cache_timestamp = None
           /\ calls = <<>>
           /\ use_s3 = pre.use_s3
           /\ s3_client = pre.s3_client
           /\ config = pre.config

\* C6 on a populated cache.
C6_Witness ==
    /\ op = "clear_cache"
    /\ PrePopulated
    /\ pre.cache_timestamp # None
    /\ sop_cache = <<>>

\* C7: refresh() rebuilds from the backend whatever the state of the cache;
\* afterwards the cache is the product of that pass, stamped with its time.
C7_RefreshAlwaysRebuilds ==
    op = "refresh_cache" => FullRebuild

\* C7 on a populated cache within its TTL that the backend has moved away from.
C7_Witness ==
    /\ op = "refresh_cache"
    /\ PrePopulated /\ PreWithinTtl
    /\ sop_cache # pre.sop_cache
    /\ IsFullPass(calls)

\* The answer of the get_sop_by_name tool to `name` over the mapping cached.
ToolAnswer(name) == tool_get_sop_by_name(sop_cache, name, list_sops(sop_cache))

WithExtension(x) == x \o <<".", "m", "d">>

InCache(key) == \E i \in 1..Len(sop_cache) : sop_cache[i].name = key

\* C8 as claimed, of the loader's get_by_key: a key without the .md extension
\* is answered as the key with it.
C8_AsClaimed ==
    /\ \A x \in KeyInputs :
            ~HasMdSuffix(x)
                => get_sop_by_name(sop_cache, x) = get_sop_by_name(sop_cache, WithExtension(x))
    /\ (op = "get_sop_by_name" /\ ~HasMdSuffix(arg.text))
            => (ret.kind = "record" <=> InCache(WithExtension(arg.text)))

\* C8, amended: it is the get_sop_by_name tool of the server that appends the
\* .md extension when it is missing, and answers x as it answers x.md (the same
\* record, or the same not-found report); the loader's get_by_key looks the
\* key up as given, and returns null for a key that is not one of the cache.
C8_ToolAppendsExtension ==
    /\ \A x \in KeyInputs :
            ~HasMdSuffix(x) => ToolAnswer(x) = ToolAnswer(WithExtension(x))
    /\ (op = "tool_get_sop_by_name" /\ ~raised /\ ~HasMdSuffix(arg.text))
            => IF InCache(WithExtension(arg.text))
               THEN /\ ret.kind = "record"
                    /\ ret.value[1].name = WithExtension(arg.text)
               ELSE ret.kind = "not_found"
    /\ op = "get_sop_by_name"
            => IF InCache(arg.text)
               THEN /\ ret.kind = "record"
                    /\ ret.value[1].name = arg.text
               ELSE ret.kind = "none"

\* C8 for a key given without the extension: the tool finds the record the
\* loader's own lookup of that key would miss.
C8_Witness ==
    /\ op = "tool_get_sop_by_name"
    /\ arg.text = <<"a">>
    /\ ret.kind = "record"
    /\ ret.value[1].name = <<"a", ".", "m", "d">>
    /\ get_sop_by_name(sop_cache, arg.text).kind = "none"

\* The two texts are equal up to the case of their letters.
EqualIgnoringCase(a, b) ==
    /\ Len(a) = Len(b)
    /\ \A i \in 1..Len(a) : LowerChar[a[i]] = LowerChar[b[i]]

\* The positions in the cache of the records whose document id is the one asked for.
IdHits == {i \in 1..Len(sop_cache) : EqualIgnoringCase(sop_cache[i].document_id, arg.text)}

\* C9: get_by_id(d) returns the first record in cache order whose document id
\* equals d ignoring case, and null exactly when there is none.
C9_FirstMatchIgnoringCase ==
    op = "get_sop_by_id"
        => IF IdHits = {}
           THEN ret.kind = "none"
           ELSE /\ ret.kind = "record"
                /\ ret.value[1] = sop_cache[CHOOSE i \in IdHits : \A k \in IdHits : i <= k]

\* C9 with two records matching in another case than the one asked for.
C9_Witness ==
    /\ op = "get_sop_by_id"
    /\ Cardinality(IdHits) = 2
    /\ ret.kind = "record"
    /\ ret.value[1].document_id # arg.text
    /\ ret.value[1] = sop_cache[1]

\* C10: search with an empty or whitespace-only keyword returns an empty list
\* in every cache state, raises nothing and touches neither backend nor cache.
C10_BlankSearchIsEmpty ==
    (op \in {"search_sops", "tool_search_sops"} /\ BlankArg)
        => /\ ret = [kind |-> "list", value |-> <<>>]
           /\ calls = <<>>
           /\ ~raised
           /\ sop_cache = pre.sop_cache
           /\ cache_timestamp = pre.cache_timestamp

\* C10 for a whitespace-only keyword on an expired, populated cache.
C10_Witness ==
    /\ op = "search_sops"
    /\ arg.text = <<" ","\n">>
    /\ PrePopulated /\ PreExpired
    /\ ret.value = <<>>

\* The keyword occurs in the text at index i, the case of letters ignored.
OccursAt(text, keyword, i) ==
    /\ i + Len(keyword) - 1 <= Len(text)
    /\ EqualIgnoringCase(SubSeq(text, i, i + Len(keyword) - 1), keyword)

\* No two of the occurrences at the indices S share a character.
Disjoint(S, width) == \A i \in S, j \in S : i < j => j - i >= width

\* The number of occurrences of the keyword in the text: the most that can be
\* marked in it without marking a character twice.
Occurrences(text, keyword) ==
    Greatest({Cardinality(S) :
                S \in {T \in SUBSET {i \in 1..Len(text) : OccursAt(text, keyword, i)} :
                            Disjoint(T, Len(keyword))}})

\* The occurrences that count for the cached document i in the scope asked for.
ScopedOccurrences(i) ==
    (IF arg.search_in \in {"title", "all"}
     THEN Occurrences(sop_cache[i].title, arg.text) ELSE 0)
    + (IF arg.search_in \in {"content", "all"}
       THEN Occurrences(TextOf[sop_cache[i].content], arg.text) ELSE 0)

\* The positions in the list returned of the results for the key.
ResultsFor(key) == {j \in 1..Len(ret.value) : ret.value[j].name = key}

\* A search of the loader with a keyword that is not blank has returned.
SearchDone == op = "search_sops" /\ ~BlankArg

\* C11: for a keyword that is not blank and each scope, search returns exactly
\* one result for each cached document in which the keyword occurs (ignoring
\* case) in the title, when the scope includes it, or in the content, when the
\* scope includes it; the result's total is the number of those occurrences;
\* no other document has a result.
C11_OneResultPerMatchingDocument ==
    SearchDone
        => /\ \A i \in 1..Len(sop_cache) :
                IF ScopedOccurrences(i) > 0
                THEN /\ Cardinality(ResultsFor(sop_cache[i].name)) = 1
                     /\ \A j \in ResultsFor(sop_cache[i].name) :
                            ret.value[j].total_matches = ScopedOccurrences(i)
                ELSE ResultsFor(sop_cache[i].name) = {}
           /\ \A j \in 1..Len(ret.value) : InCache(ret.value[j].name)

\* C11 where the scope is the title: of two cached documents, the one whose
\* title holds the keyword in another case is returned, and the other, whose
\* content alone holds it, is not.
C11_Witness ==
    /\ SearchDone
    /\ arg.search_in = "title"
    /\ Len(sop_cache) = 2
    /\ Len(ret.value) = 1
    /\ \E i \in 1..2 :
            /\ ret.value[1].name = sop_cache[i].name
            /\ sop_cache[i].title # lower(sop_cache[i].title)
    /\ \E i \in 1..2 :
            /\ ResultsFor(sop_cache[i].name) = {}
            /\ Occurrences(TextOf[sop_cache[i].content], arg.text) > 0

\* The keyword matched in the title of the result: the scope includes the
\* title and the keyword occurs in it.
MatchedInTitle(result) ==
    /\ arg.search_in \in {"title", "all"}
    /\ Occurrences(result.title, arg.text) > 0

\* min(min(T/10, 1.0) + B, 1.0) in hundredths, B being 0.3 or 0
ClaimedScore(result) ==
    Min(Min(result.total_matches * 10, 100) + (IF MatchedInTitle(result) THEN 30 ELSE 0), 100)

\* C12: the relevance score of every search result is min(min(T/10, 1.0) + B,
\* 1.0), T being the result's total match count and B 0.3 if the keyword
\* matched in the title and 0 otherwise; so the score lies in [0,1], and with
\* scope "all" and no occurrence in the title it is min(N/10, 1.0) for a
\* document holding the keyword N times.
C12_AsClaimed ==
    SearchDone
        => \A j \in 1..Len(ret.value) :
                /\ ret.value[j].relevance_score = ClaimedScore(ret.value[j])
                /\ ret.value[j].relevance_score \in 0..100
                /\ (arg.search_in = "all" /\ Occurrences(ret.value[j].title, arg.text) = 0)
                        => ret.value[j].relevance_score
                                = Min(ret.value[j].total_matches * 10, 100)

\* C12 refuted: scope "all", a result whose title does not hold the keyword
\* and whose one match lies under a heading that reads "Title": the score is
\* 0.4 where min(1/10, 1.0) is 0.1.
C12_Witness ==
    /\ SearchDone
    /\ arg.search_in = "all"
    /\ \E j \in 1..Len(ret.value) :
            /\ Occurrences(ret.value[j].title, arg.text) = 0
            /\ ret.value[j].total_matches = 1
            /\ ret.value[j].relevance_score = 40
            /\ ret.value[j].excerpts[1].section = TitleSection

\* A search of the loader or of the tool has returned its list.
SearchReturned == op \in {"search_sops", "tool_search_sops"} /\ ret.kind = "list"

\* C13: the list search returns is in order of non-increasing relevance
\* score: of two adjacent results the earlier scores at least what the later
\* does.
C13_ResultsByDescendingScore ==
    SearchReturned
        => \A j \in 1..(Len(ret.value) - 1) :
                ret.value[j].relevance_score >= ret.value[j + 1].relevance_score

\* C13 where the sort had work to do: two results, the better one being the
\* later document of the cache.
C13_Witness ==
    /\ SearchDone
    /\ Len(sop_cache) = 2
    /\ Len(ret.value) = 2
    /\ ret.value[1].name = sop_cache[2].name
    /\ ret.value[2].name = sop_cache[1].name
    /\ ret.value[1].relevance_score > ret.value[2].relevance_score

\* The excerpt of a result that stands for the match in its title.
TitleExcerpt(result) ==
    [section     |-> TitleSection,
     text        |-> result.title,
     match_count |-> Occurrences(result.title, arg.text)]

\* The number of excerpts of a result that are excerpts of the content.
ContentExcerpts(result) ==
    Len(result.excerpts) - (IF MatchedInTitle(result) THEN 1 ELSE 0)

\* C14: a search result carries at most 5 excerpts, at most 3 of them
\* excerpts of the content; the match in the title, when there is one, is the
\* first excerpt, whatever the number of content excerpts.
C14_ExcerptsBoundedTitleFirst ==
    SearchReturned
        => \A j \in 1..Len(ret.value) :
                /\ Len(ret.value[j].excerpts) <= 5
                /\ ContentExcerpts(ret.value[j]) <= 3
                /\ MatchedInTitle(ret.value[j])
                        => /\ ret.value[j].excerpts # <<>>
                           /\ ret.value[j].excerpts[1] = TitleExcerpt(ret.value[j])

\* C14 at its limit: the keyword is in the title and more than three times,
\* far apart, in the content; the result has the title and three excerpts.
C14_Witness ==
    /\ SearchDone
    /\ Len(ret.value) = 1
    /\ MatchedInTitle(ret.value[1])
    /\ Cardinality({i \in 1..LongLen : OccursAt(TextOf[sop_cache[1].content], arg.text, i)}) > 3
    /\ Len(ret.value[1].excerpts) = 4
    /\ ret.value[1].excerpts[1] = TitleExcerpt(ret.value[1])

\* Remote mode was requested of the constructor and its connectivity check
\* failed.
FellBack == config.use_s3 /\ ~config.s3_reachable

\* C15: when remote mode is requested and the connectivity check of the
\* constructor fails, the loader is constructed and is in local mode from
\* then on: no operation switches it to remote mode, every listing and read
\* goes to the local backend, and an exception, if any, comes after the
\* listing has returned.  In every state, remote mode implies a client.
C15_FallbackToLocalIsPermanent ==
    /\ FellBack
            => /\ ~use_s3
               /\ ~s3_client
               /\ \A i \in 1..Len(calls) : calls[i].backend = "local"
               /\ raised => (Len(calls) >= 2 /\ calls[1].call = "list")
    /\ use_s3 => s3_client

\* C15 after the fallback: a load that lists and reads the local backend and
\* caches two documents.
C15_Witness ==
    /\ FellBack
    /\ op = "load_sops"
    /\ IsFullPass(calls)
    /\ \A i \in 1..Len(calls) : calls[i].backend = "local"
    /\ Len(sop_cache) = 2
    /\ \A i \in 1..2 : sop_cache[i].storage_location = "local"

\* What the operation of the loader answers from the mapping `sops`.
AnswerFrom(sops) ==
    IF op = "load_sops" THEN [kind |-> "mapping", value |-> sops]
    ELSE IF op = "list_sops" THEN [kind |-> "list", value |-> list_sops(sops)]
    ELSE IF op = "get_sop_by_name" THEN get_sop_by_name(sops, arg.text)
    ELSE IF op = "get_sop_by_id" THEN get_sop_by_id(sops, arg.text)
    ELSE IF op = "search_sops"
    THEN [kind |-> "list", value |-> search_sops(sops, arg.text, arg.search_in)]
    ELSE NoResult

HealthDone == op = "health_check"

\* C17: the health check reports healthy, with HTTP 200, exactly when the
\* most recent load left a cache that is not empty, and unhealthy, with HTTP
\* 503, exactly when it left an empty one: the load is the one the check
\* itself makes, whose pass over the backend, when it makes one, stores a
\* document or none; when that pass fails, or none is due, the cache is what
\* the load before left.
C17_HealthReflectsLastLoad ==
    HealthDone
        => /\ ret.value[1].status_code \in {200, 503}
           /\ ret.value[1].status_code = 200
                <=> (ret.value[1].status = "healthy" /\ sop_cache # <<>>)
           /\ ret.value[1].status_code = 503
                <=> (ret.value[1].status = "unhealthy" /\ sop_cache = <<>>)
           /\ ret.value[1].sop_count = Len(sop_cache)
           /\ (calls # <<>> /\ ~raised)
                => (ret.value[1].status_code = 200 <=> Stored # {})
           /\ (calls = <<>> \/ raised)
                => (ret.value[1].status_code = 200 <=> pre.sop_cache # <<>>)

\* C17 both ways: a check that finds the backend without a readable
\* document after the cache expired reports 503; the cache was not empty
\* before.
C17_Witness ==
    /\ HealthDone
    /\ PrePopulated
    /\ PreExpired
    /\ Listed # {}
    /\ ret.value[1].status_code = 503
    /\ sop_cache = <<>>

\* The mapping and the timestamp are what they were before the operation.
CacheUntouched ==
    /\ sop_cache = pre.sop_cache
    /\ cache_timestamp = pre.cache_timestamp

\* C18 as claimed: for any keyword and scope a search leaves the cache
\* mapping and the cache timestamp exactly as they were before the call.
C18_AsClaimed == op = "search_sops" => CacheUntouched

\* C18: a search writes nothing but what its call of load does.  With a
\* blank keyword, with a populated cache within its TTL, and when the load
\* fails, the mapping and the timestamp are as before the call; otherwise the
\* search first replaces both by one pass over the backend.  The result is
\* the search of the mapping as the call leaves it.
C18_SearchWritesOnlyThroughLoad ==
    op = "search_sops"
        => /\ (BlankArg \/ (PrePopulated /\ PreWithinTtl) \/ raised)
                => (CacheUntouched /\ (~raised => calls = <<>>))
           /\ (~BlankArg /\ ~(PrePopulated /\ PreWithinTtl) /\ ~raised) => FullRebuild
           /\ ~BlankArg
                => ret = [kind |-> "list",
                          value |-> search_sops(sop_cache, arg.text, arg.search_in)]

\* C18 where the search writes: the cache had expired and the backend had
\* changed, so the mapping after the search is not the one before it.
C18_Witness ==
    /\ SearchDone
    /\ PrePopulated
    /\ PreExpired
    /\ sop_cache # <<>>
    /\ \E i \in 1..Len(pre.sop_cache) : \A j \in 1..Len(sop_cache) :
            sop_cache[j].content # pre.sop_cache[i].content
    /\ cache_timestamp # pre.cache_timestamp
    /\ ret.value # <<>>

\* The keys the backend lists whose read returns a content: the entry is a
\* file that can be read, whatever its text.
Present == {f \in Listed : store[f].state = "file"}

\* The operation made one pass over the backend and the pass completed.
PassCompleted == (LoaderQuery \/ op = "refresh_cache") /\ calls # <<>> /\ ~raised

\* The positions in the cache of the record stored under the key.
CachedAt(key) == {i \in 1..Len(sop_cache) : sop_cache[i].name = key}

\* C19: after a completed load pass the cache holds exactly the keys the
\* backend lists whose content was present when read, each with its
\* metadata, content, size in bytes and load time; a key whose content is
\* absent is skipped and the pass goes on; no key that is not listed appears.
C19_AsClaimed ==
    PassCompleted
        => /\ IsFullPass(calls)
           /\ {sop_cache[i].name : i \in 1..Len(sop_cache)} = Present
           /\ \A f \in Present : \A i \in CachedAt(f) :
                    /\ sop_cache[i].content = store[f].text
                    /\ sop_cache[i].title = Extracted[store[f].text].title
                    /\ sop_cache[i].file_size = Utf8Len(TextOf[store[f].text])
                    /\ sop_cache[i].last_modified = now

\* C19 refuted: a completed pass over a backend that lists a document which
\* is read without error and is empty; the cache does not hold its key.
C19_Witness ==
    /\ PassCompleted
    /\ IsFullPass(calls)
    /\ \E f \in Present : TextOf[store[f].text] = <<>> /\ ~InCache(f)
    /\ \A f \in Present : TextOf[store[f].text] # <<>> => InCache(f)
    /\ sop_cache # <<>>

\* The windows of the content excerpts of the cached document i for the
\* keyword searched.
WindowsOf(i) == Windowed[sop_cache[i].content][arg.text]

\* The window lies around an occurrence of the keyword in the text, with at
\* most 150 characters before it and 150 after it, within the text.
WindowAroundMatch(text, w) ==
    /\ OccursAt(text, arg.text, w.pos + 1)
    /\ 0 <= w.start_pos
    /\ w.start_pos <= w.pos
    /\ w.pos - w.start_pos <= 150
    /\ w.pos - w.start_pos < 150 => w.start_pos = 0
    /\ w.pos + Len(arg.text) <= w.end_pos
    /\ w.end_pos <= Len(text)
    /\ w.end_pos - (w.pos + Len(arg.text)) <= 150
    /\ w.end_pos - (w.pos + Len(arg.text)) < 150 => w.end_pos = Len(text)

\* The two windows share no character.
Apart(v, w) == v.end_pos <= w.start_pos \/ w.end_pos <= v.start_pos

\* The search looked into the content of the documents.
ContentSearched == SearchDone /\ arg.search_in \in {"content", "all"}

\* C20: of the content excerpts of one search result, each window spans at
\* most 150 characters before the match and 150 after it, less only where
\* the content begins or ends, and no two windows of a document overlap.
C20_WindowsBoundedAndDisjoint ==
    ContentSearched
        => \A i \in 1..Len(sop_cache) :
                /\ \A n \in 1..Len(WindowsOf(i)) :
                        WindowAroundMatch(TextOf[sop_cache[i].content], WindowsOf(i)[n])
                /\ \A m \in 1..Len(WindowsOf(i)), n \in 1..Len(WindowsOf(i)) :
                        m < n => Apart(WindowsOf(i)[m], WindowsOf(i)[n])
                /\ \A j \in ResultsFor(sop_cache[i].name) :
                        ContentExcerpts(ret.value[j]) = Len(WindowsOf(i))

\* C20 at the edge: three windows, two of which touch without overlapping,
\* after a match between them was passed over because its window overlapped.
C20_Witness ==
    /\ ContentSearched
    /\ Len(sop_cache) = 1
    /\ Len(WindowsOf(1)) = 3
    /\ WindowsOf(1)[1].end_pos = WindowsOf(1)[2].start_pos
    /\ \E p \in (WindowsOf(1)[1].pos + 2)..(WindowsOf(1)[2].pos - 1) :
            OccursAt(TextOf[sop_cache[1].content], arg.text, p)
    /\ ContentExcerpts(ret.value[1]) = 3

----------------------------------------------------------------------------
(* Malformed bytes *)

\* The listed files given by bytes that hold a malformed sequence
MalformedFiles ==
    {f \in Listed : /\ store[f].state = "bytes"
                    /\ \E i \in 1..Len(BytesOf[store[f].text]) :
                            Malformed(BytesOf[store[f].text][i])}

\* The cache holds f with the text of its bytes, a replacement character in
\* the place of each malformed byte.
CachedWithReplacement(f) ==
    \E i \in CachedAt(f) :
        /\ TextOf[sop_cache[i].content] = decode_replace(BytesOf[store[f].text]).text
        /\ \E k \in 1..Len(TextOf[sop_cache[i].content]) :
                TextOf[sop_cache[i].content][k] = Replacement

\* C21: in local and in remote mode, a document whose bytes hold a malformed
\* sequence is read as its text with replacement characters, not as null, so
\* after a completed load pass the cache holds it.
C21_AsClaimed ==
    PassCompleted => \A f \in MalformedFiles : CachedWithReplacement(f)

\* C21 in local mode: the document is cached with its replacement characters.
C21_LocalReadReplaces ==
    (PassCompleted /\ Backend = "local")
        => \A f \in MalformedFiles : CachedWithReplacement(f)

\* C21 refuted: a completed pass in remote mode over a listed document with a
\* malformed byte; the read was made and the cache does not hold the key,
\* while it holds the well-formed documents.
C21_Witness ==
    /\ PassCompleted
    /\ Backend = "s3"
    /\ \E f \in MalformedFiles :
            /\ ReadCall(f) \in {calls[i] : i \in 1..Len(calls)}
            /\ ~InCache(f)
    /\ sop_cache # <<>>

----------------------------------------------------------------------------
(* The listing *)

\* The document keys of the backend: the files directly in the directory, or
\* the objects whose key minus the prefix holds no further '/', that carry
\* the extension.
DocumentKeys == {f \in Held : HasMdSuffix(f) /\ \A i \in 1..Len(f) : f[i] # "/"}

\* The sequence q is in ascending order without duplicates.
StrictlyAscending(q) == \A i \in 1..(Len(q) - 1) : StrLess(q[i], q[i + 1])

\* The listing returned is the one claimed.
ListingAsClaimed ==
    /\ ret.kind = "names"
    /\ StrictlyAscending(ret.value)
    /\ location = "ok" => {ret.value[i] : i \in 1..Len(ret.value)} = DocumentKeys
    /\ location # "ok" => ret.value = <<>>

\* C22: list_keys() returns in ascending order, without duplicates, exactly
\* the keys of the backend that carry the extension (in remote mode the keys
\* under the prefix with no further path separator), and the empty sequence,
\* without raising, when the location is missing or unreadable.
C22_AsClaimed == op = "list_sop_files" => ListingAsClaimed

\* C22 in local mode
C22_LocalListing == (op = "list_sop_files" /\ Backend = "local") => ListingAsClaimed

\* C22 for a location that is missing or unreadable, in either mode
C22_EmptyWhenUnavailable ==
    (op = "list_sop_files" /\ location # "ok") => ret = [kind |-> "names", value |-> <<>>]

\* C22 refuted: in remote mode, with an object below a subdirectory named as
\* the prefix is, the listing holds a name twice.
C22_Witness ==
    /\ op = "list_sop_files"
    /\ Backend = "s3"
    /\ location = "ok"
    /\ SopAMd \in Held
    /\ \E i \in 1..Len(ret.value) : \E j \in 1..Len(ret.value) :
            i < j /\ ret.value[i] = ret.value[j]

----------------------------------------------------------------------------
(* The header fields *)

\* The value that follows the label of the version up to the end of its
\* line in the document d, and '' where the document has no such label in a
\* control block.
ValueOfVersion(d) ==
    IF MetaParts[d].head = 0 THEN <<>>
    ELSE IF MetaParts[d].version = 1 THEN <<"1">>
    ELSE IF MetaParts[d].version = 3 THEN <<"a"," ","b">>
    ELSE <<>>

\* The same for the owner
ValueOfOwner(d) ==
    IF MetaParts[d].head = 0 THEN <<>>
    ELSE IF MetaParts[d].owner = 1 THEN <<"Q">>
    ELSE <<>>

HeaderFields ==
    {"document_id", "version", "effective_date", "review_date", "owner", "approved_by"}

\* The header fields of the record are the claimed ones of its document.
FieldsAsClaimed(sop_data) ==
    /\ HeaderFields \subseteq DOMAIN sop_data
    /\ sop_data.version = ValueOfVersion(sop_data.content)
    /\ sop_data.owner = ValueOfOwner(sop_data.content)
    /\ sop_data.document_id = <<>>
    /\ sop_data.effective_date = <<>>
    /\ sop_data.review_date = <<>>
    /\ sop_data.approved_by = <<>>

\* Each label of the control block of the document has a value on its line,
\* and the block has a line when something follows it.
EveryLabelHasValue(d) ==
    /\ MetaParts[d].version # 2
    /\ MetaParts[d].owner # 2
    /\ MetaParts[d].tail = 1 => (MetaParts[d].version # 0 \/ MetaParts[d].owner # 0)

\* C23: the record of every document holds all six header fields; a field
\* whose label is in the control block holds the value that follows the
\* label up to the end of the line, and a field whose label is absent, or
\* any field when there is no control block, holds the empty string.
C23_AsClaimed ==
    \A i \in 1..Len(sop_cache) :
        sop_cache[i].content \in MetaDocs => FieldsAsClaimed(sop_cache[i])

\* C23 for the control blocks that are not empty and each of whose labels
\* has a value on its line
C23_FieldsWhenValuesPresent ==
    \A i \in 1..Len(sop_cache) :
        (sop_cache[i].content \in MetaDocs /\ EveryLabelHasValue(sop_cache[i].content))
            => FieldsAsClaimed(sop_cache[i])

\* C23 for the six keys alone
C23_SixKeysAlways ==
    \A i \in 1..Len(sop_cache) : HeaderFields \subseteq DOMAIN sop_cache[i]

\* C23 refuted: the record returned for a document whose control block has
\* the label of the version with nothing after it and then the line of the
\* owner; the version of the record is that line.
C23_Witness ==
    /\ op = "get_sop_by_name"
    /\ ret.kind = "record"
    /\ ret.value[1].content \in MetaDocs
    /\ MetaParts[ret.value[1].content].head = 1
    /\ MetaParts[ret.value[1].content].version = 2
    /\ MetaParts[ret.value[1].content].owner = 1
    /\ ret.value[1].version = OwnerLabel \o <<" ","Q">>
    /\ ret.value[1].owner = <<"Q">>

----------------------------------------------------------------------------
(* The outline *)

\* The numbers of the second-level headings of the document d, in document
\* order ('' for a heading without a number)
NumbersOf(d) ==
    <<IF OutlineParts[d].first = 2 THEN <<>> ELSE <<"1">>>>
        \o (IF OutlineParts[d].next = 1 THEN <<<<"2">>>>
            ELSE IF OutlineParts[d].next = 2 THEN <<<<"1","1">>>>
            ELSE <<>>)

\* A third-level heading: the number its label starts with, and label and title
Third(parent, sub, title) ==
    [parent |-> parent, text |-> parent \o <<".", sub, " ">> \o title]

\* The third-level headings of the document d, in document order
ThirdsOf(d) ==
    (IF OutlineParts[d].below = 0 THEN <<>>
     ELSE IF OutlineParts[d].below = 1 THEN <<Third(<<"1">>, "1", Prerequisites)>>
     ELSE <<Third(<<"1">>, "1", Prerequisites), Third(<<"1">>, "2", <<"Q">>)>>)
        \o (IF OutlineParts[d].last = 0 THEN <<>>
            ELSE IF OutlineParts[d].last = 1 THEN <<Third(<<"2">>, "1", <<"A">>)>>
            ELSE IF OutlineParts[d].last = 2 THEN <<Third(<<"1">>, "3", <<"L">>)>>
            ELSE <<Third(<<"1","1">>, "1", <<"B">>)>>)

RECURSIVE Under(_, _)
\* Those of the headings `thirds` whose label is `number`, a dot and a
\* sub-number, in their order
Under(thirds, number) ==
    IF thirds = <<>> THEN <<>>
    ELSE (IF Head(thirds).parent = number THEN <<Head(thirds).text>> ELSE <<>>)
            \o Under(Tail(thirds), number)

\* The outline of the record lists each third-level heading under the
\* sections of its number, in document order, and under no other.
OutlineAsClaimed(sop_data) ==
    /\ Len(sop_data.sections) = Len(NumbersOf(sop_data.content))
    /\ \A k \in 1..Len(sop_data.sections) :
            sop_data.sections[k].subsections
                = Under(ThirdsOf(sop_data.content), NumbersOf(sop_data.content)[k])

\* C24: in the outline every third-level heading whose label is the number
\* of a second-level heading, a dot and a sub-number is listed, in document
\* order, among the subsections of that section and of no other; "## 1
\* Setup" and "### 1.1 Prerequisites" give section "1" the subsection "1.1
\* Prerequisites".
C24_AsClaimed ==
    \A i \in 1..Len(sop_cache) :
        sop_cache[i].content \in OutlineDocs => OutlineAsClaimed(sop_cache[i])

\* C24 for the documents whose second-level headings have no dot after
\* their number
C24_OutlineWithoutDot ==
    \A i \in 1..Len(sop_cache) :
        (sop_cache[i].content \in OutlineDocs
            /\ OutlineParts[sop_cache[i].content].first # 1)
                => OutlineAsClaimed(sop_cache[i])

\* C24 for the headings the claim names
C24_Example ==
    \A i \in 1..Len(sop_cache) :
        (sop_cache[i].content \in OutlineDocs
            /\ OutlineParts[sop_cache[i].content].first = 0
            /\ OutlineParts[sop_cache[i].content].below = 1)
                => /\ sop_cache[i].sections[1].number = <<"1">>
                   /\ sop_cache[i].sections[1].subsections[1]
                        = <<"1",".","1"," ">> \o Prerequisites

\* C24 refuted: the record returned for a document with "## 1. Setup" and
\* "### 1.1 Prerequisites"; the section has the number "1." and no
\* subsection.
C24_Witness ==
    /\ op = "get_sop_by_name"
    /\ ret.kind = "record"
    /\ ret.value[1].content \in OutlineDocs
    /\ OutlineParts[ret.value[1].content].first = 1
    /\ OutlineParts[ret.value[1].content].below = 1
    /\ ret.value[1].sections[1].number = <<"1", ".">>
    /\ ret.value[1].sections[1].title = <<"S","e","t","u","p">>
    /\ ret.value[1].sections[1].subsections = <<>>

----------------------------------------------------------------------------
(* The monitor of the servers *)

Monitoring == manager.pc \in {"sleeping", "looping", "crashed"}

\* The list tracks one process for each server, in the order of SERVERS.
OnePerServer ==
    /\ Len(manager.processes) = NServers
    /\ \A k \in 1..NServers : manager.processes[k].server = k

\* C25: while monitor_servers runs, whatever children die and however the
\* restarts end, the list holds one process for each configured server,
\* processes[i] that of SERVERS[i]; it never grows beyond len(SERVERS), and
\* the loop never looks up a server out of range.
C25_AsClaimed == Monitoring => (OnePerServer /\ manager.pc # "crashed")

\* C25 up to the first restart attempt
C25_UntilFirstRestart == (Monitoring /\ manager.restarts = 0) => OnePerServer

\* The list never holds a process at the index of another server's.
C25_ServersInPlace ==
    Monitoring => \A k \in 1..NServers : manager.processes[k].server = k

\* C25 refuted: a child died and was restarted, the list holds the new
\* process twice, at its index and at the end, and when that process died the
\* loop reached the index beyond the servers and raised IndexError.
C25_Witness ==
    /\ manager.pc = "crashed"
    /\ Len(manager.processes) = NServers + 1
    /\ manager.i = NServers + 1
    /\ \E k \in 1..NServers : manager.processes[k] = manager.processes[NServers + 1]

----------------------------------------------------------------------------
(* Concurrent loads *)

\* The mapping from before the calls, or the complete result of one pass
BeforeOrOnePass == sop_cache = pre.sop_cache \/ sop_cache \in passes

AllReturned == \A t \in Threads : threads[t].pc = "returned"

\* C26: under any interleaving of concurrent load and refresh calls, the
\* cache mapping is at each moment the mapping from before the calls or the
\* complete result of one caller's pass, never a mixture; and once all calls
\* have returned, a pass having been made, the timestamp is set and the cache
\* is the result of one of the passes.
C26_OnePassAtATime ==
    /\ BeforeOrOnePass
    /\ (AllReturned /\ passes # {}) => (cache_timestamp # None /\ sop_cache \in passes)

\* Two passes that read different documents have both replaced the cache
\* and neither has set the timestamp yet.
C26_Witness ==
    /\ threads["t1"].pc = "stamp"
    /\ threads["t2"].pc = "stamp"
    /\ threads["t1"].sops # threads["t2"].sops
    /\ threads["t1"].sops # <<>>
    /\ threads["t2"].sops # <<>>
    /\ sop_cache = threads["t1"].sops
    /\ pre.sop_cache # <<>>
    /\ pre.sop_cache \notin passes

----------------------------------------------------------------------------
(* A rebuild over a backend that lists nothing *)

\* A rebuild has just run, of documents cached by an earlier load, and its
\* listing failed or was empty.
RebuiltOverNothing ==
    /\ op \in {"load_sops", "list_sops"}
    /\ calls = <<ListCall>>
    /\ pre.ever_loaded
    /\ pre.sop_cache # <<>>

\* C27: when the listing fails or returns nothing during a rebuild that
\* follows a successful load, the documents cached before are not kept: the
\* cache mapping is empty, the timestamp is the time of the rebuild, and the
\* query that triggered the rebuild sees no documents.
C27_RebuildOverNothingEmpties ==
    RebuiltOverNothing =>
        /\ sop_cache = <<>>
        /\ cache_timestamp = now
        /\ ret.kind \in {"mapping", "list"}
        /\ ret.value = <<>>

\* The directory or the bucket went away after a load, the cache expired, and
\* list_sops rebuilt it.
C27_Witness ==
    /\ RebuiltOverNothing
    /\ op = "list_sops"
    /\ location # "ok"
    /\ Held # {}
    /\ is_cache_valid(pre.cache_timestamp) = FALSE
    /\ sop_cache = <<>>

\* The same when the backend can be listed and holds no document any more.
C27_WitnessEmptyListing ==
    /\ RebuiltOverNothing
    /\ location = "ok"
    /\ list_sop_files = <<>>
    /\ ret.value = <<>>

----------------------------------------------------------------------------
(* An empty cache is never served *)

\* A query has just run that found the cache mapping empty.
QueriedEmptyCache ==
    /\ LoaderQuery \/ ToolQuery \/ op = "health_check"
    /\ pre.sop_cache = <<>>

\* C28: while the cache mapping is empty, every query -- list, lookup by
\* name or by id, search for a keyword that is not blank, health check --
\* lists the backend afresh, even with a timestamp set and within the TTL.
C28_EmptyCacheAlwaysLists ==
    QueriedEmptyCache => (calls # <<>> /\ calls[1] = ListCall)

\* A pass had yielded no document; within the TTL of its timestamp the health
\* check listed the backend again.
C28_Witness ==
    /\ op = "health_check"
    /\ pre.sop_cache = <<>>
    /\ pre.cache_timestamp # None
    /\ now - pre.cache_timestamp < cache_ttl_seconds
    /\ pre.ever_loaded
    /\ calls # <<>>
    /\ calls[1] = ListCall

----------------------------------------------------------------------------
(* The shared MCP client and agent *)

\* C29: over any sequence of calls, those included in which building the
\* agent fails after the client was started, the MCP client is created at
\* most once and started at most once, and at most one agent is created.
C29_AsClaimed ==
    /\ agent.created <= 1
    /\ agent.started <= 1
    /\ agent.agents <= 1

\* What holds of C29: one client and one agent at most.
C29_OneClientOneAgent == agent.created <= 1 /\ agent.agents <= 1

\* start() is called once in each call that finds no agent built.
C29_StartPerBuildAttempt ==
    agent.start_calls =
        Cardinality({i \in 1..Len(agent.history) :
                        /\ agent.history[i] # "client_raises"
                        /\ \A j \in 1..(i - 1) : agent.history[j] \notin {"query_raises", "ok"}})

\* C29 refuted: the tools could not be listed in the first call, and the
\* second call started the client that was running once more.
C29_Witness ==
    /\ Len(agent.history) = 2
    /\ agent.history[1] = "tools_raise"
    /\ agent.history[2] = "ok"
    /\ agent.created = 1
    /\ agent.start_calls = 2
    /\ agent.agents = 1

----------------------------------------------------------------------------
(* The JSON data cache *)

JsonLoaded == json_loader.last.op = "load"

\* The file of the last request is missing or is not a JSON document.
MissingOrInvalid == json_loader.files[json_loader.last.path] \in {Missing, "Cut", "Raw"}

\* A request for a file loaded before is answered from the cache, the file
\* not read.
AnsweredFromCache ==
    (JsonLoaded /\ json_loader.last.cached # NotCached) =>
        /\ ~json_loader.last.read
        /\ json_loader.last.ret = json_loader.last.cached
        /\ json_loader.cache[json_loader.last.path] = json_loader.last.cached

\* C30: only successful parses are cached.  A file loaded successfully is
\* answered from the cache, without a read, until clear_cache(); a missing or
\* invalid file yields {"data": {}}, is not stored, and is read again by the
\* next request.
C30_AsClaimed ==
    /\ AnsweredFromCache
    /\ (JsonLoaded /\ json_loader.last.cached = NotCached /\ MissingOrInvalid) =>
            /\ json_loader.last.read
            /\ json_loader.last.ret = EmptyData
            /\ json_loader.cache[json_loader.last.path] = NotCached

\* What holds of C30: requests are answered from the cache, and a file that
\* is missing or whose text is not JSON yields {"data": {}} and is not stored.
C30_MissingOrMalformedText ==
    /\ AnsweredFromCache
    /\ (/\ JsonLoaded
        /\ json_loader.last.cached = NotCached
        /\ json_loader.files[json_loader.last.path] \in {Missing, "Cut"}) =>
            /\ json_loader.last.read
            /\ json_loader.last.ret = EmptyData
            /\ json_loader.cache[json_loader.last.path] = NotCached

\* No failure is ever stored: the cache holds parsed data only.
C30_OnlyParsedDataCached ==
    \A path \in JsonPaths : json_loader.cache[path] \in {NotCached, "D1", "D2"}

\* An entry of the cache changes only when clear_cache() removes it.
C30_OnlyClearForgets ==
    [][\A path \in JsonPaths :
            (json_loader.cache[path] # NotCached /\ json_loader.cache'[path] # json_loader.cache[path])
                => json_loader.last'.op = "clear_cache"]_vars

\* C30 refuted: the file requested holds bytes that are not UTF-8, and the
\* request ended in an exception instead of {"data": {}}.
C30_Witness ==
    /\ JsonLoaded
    /\ json_loader.last.read
    /\ json_loader.files[json_loader.last.path] = "Raw"
    /\ json_loader.last.ret = JsonRaised
    /\ json_loader.cache[json_loader.last.path] = NotCached
====
